---- MODULE Spec2Model ----
(***************************************************************************)
(* Model of pithos/backends/lib/sqlite/node.py: the node tree, the version *)
(* ledger and the statistics rollups kept in the SQLite tables `nodes',    *)
(* `versions' and `statistics'.  Every table is a set of rows (records).   *)
(* Spec runs the operations one call at a time; SpecLookup adds a reader,  *)
(* SpecPurge starts from a node with three versions, SpecTx interleaves    *)
(* the statements of two callers, SpecList, SpecListAny and SpecFilter     *)
(* call latest_version_list over sets of paths and of attributes, SpecStr  *)
(* calls strnextling, SpecAttr adds the operations on the tables           *)
(* `attributes' and `policy', SpecUpsert runs the attribute operations     *)
(* from every assignment of attributes, SpecListDeep and SpecListVersions  *)
(* list longer paths and nodes with several versions, SpecLatest calls     *)
(* statistics_latest, and SpecScan runs a listing one fetch at a time      *)
(* beside the writers.                                                     *)
(***************************************************************************)
EXTENDS Integers, FiniteSets, Sequences, TLC

VARIABLES nodes, versions, statistics, now, calls, seen, proc, attributes,
          policy, listed

vars ==
    <<nodes, versions, statistics, now, calls, seen, proc, attributes, policy,
      listed>>

(* ------------------------------ bounds --------------------------------- *)
MaxNode == 2
MaxSerial == 2
MaxTime == 2
\* number of calls in a run
MaxCalls == 5

Clusters == {0, 1}
Sizes == {1, 2}
Hashes == {"H1"}
Paths == {"a", "a/b"}
Sources == {0}
Musers == {"u"}

(* ----------------------------- constants ------------------------------- *)
ROOTNODE == 0

\* the absent row (python None)
None == [none |-> TRUE]

NodeIds == 0..(MaxNode + 1)
Serials == 1..(MaxSerial + 1)
\* `before' arguments; MaxTime + 1 exceeds every mtime and stands for inf
Befores == 1..(MaxTime + 1)
inf == MaxTime + 1

\* the callers that share the database, and the nodes they create versions at
Procs == {1, 2}
TxNodes == {2, 3}

\* a caller between two operations: no statement pending, nothing uncommitted
Idle ==
    [pc |-> "idle", op |-> "none", serial |-> 0, node |-> 0, size |-> 0,
     cluster |-> 0, newcluster |-> 0, mtime |-> 0, cur |-> 0, population |-> 0,
     delta |-> 0, wcluster |-> 0, more |-> FALSE, pre |-> <<0, 0>>,
     ins |-> {}, del |-> {}, upd |-> {}, st |-> {}]

(* ------------------------------ helpers -------------------------------- *)
SetMax(S) == CHOOSE x \in S : \A y \in S : y <= x

RECURSIVE SumSize(_)
SumSize(vs) ==
    IF vs = {} THEN 0
    ELSE LET v == CHOOSE x \in vs : TRUE IN v.size + SumSize(vs \ {v})

NodeSet(ns) == {n.node : n \in ns}

\* sqlite rowid allocation for an `integer primary key' column
lastrowid(ids) == IF ids = {} THEN 1 ELSE SetMax(ids) + 1

node_get_properties(ns, node) ==
    IF node \in NodeSet(ns)
    THEN CHOOSE n \in ns : n.node = node
    ELSE None

\* node_count_children finding no child
node_count_children_none(node) == 0

node_count_children(node) ==
    Cardinality({n \in nodes : n.parent = node /\ n.node # 0})

\* rows removed by `on delete cascade' along nodes.parent
RECURSIVE CascadeNodes(_, _)
CascadeNodes(ns, del) ==
    LET more == {n.node : n \in {m \in ns : m.parent \in del}} IN
    IF more \subseteq del THEN del ELSE CascadeNodes(ns, del \cup more)

(* ---------------------------- statistics ------------------------------- *)
statistics_get(st, node, cluster) ==
    LET r == {s \in st : s.node = node /\ s.cluster = cluster} IN
    IF r = {} THEN None ELSE CHOOSE s \in r : TRUE

statistics_update(st, node, population, size, mtime, cluster) ==
    LET r == statistics_get(st, node, cluster)
        prepopulation == IF r = None THEN 0 ELSE r.population
        presize == IF r = None THEN 0 ELSE r.size
    IN  {s \in st : ~(s.node = node /\ s.cluster = cluster)}
        \cup {[node |-> node, cluster |-> cluster,
               population |-> population + prepopulation,
               size |-> size + presize, mtime |-> mtime]}

\* the loop of statistics_update_ancestors returns iff the parent chain
\* reaches node 0 or a missing node
RECURSIVE WalkTerminates(_, _, _)
WalkTerminates(ns, node, fuel) ==
    IF node = 0 THEN TRUE
    ELSE IF node \notin NodeSet(ns) THEN TRUE
    ELSE IF fuel = 0 THEN FALSE
    ELSE WalkTerminates(ns, node_get_properties(ns, node).parent, fuel - 1)

Terminates(node) == WalkTerminates(nodes, node, Cardinality(nodes))

\* statistics_update_ancestors without `population = 0' after the first hop
RECURSIVE ancestors_population_recursive(_, _, _, _, _, _, _)
ancestors_population_recursive(ns, st, node, population, size, mtime, cluster) ==
    IF node = 0 THEN st
    ELSE LET props == node_get_properties(ns, node) IN
         IF props = None THEN st
         ELSE ancestors_population_recursive(
                  ns,
                  statistics_update(st, props.parent, population, size,
                                    mtime, cluster),
                  props.parent, population, size, mtime, cluster)

\* statistics_update_ancestors updating the node's own row before its parents
RECURSIVE ancestors_from_node(_, _, _, _, _, _, _)
ancestors_from_node(ns, st, node, population, size, mtime, cluster) ==
    LET st1 == statistics_update(st, node, population, size, mtime, cluster)
    IN  IF node = 0 THEN st1
        ELSE LET props == node_get_properties(ns, node) IN
             IF props = None THEN st
             ELSE ancestors_from_node(ns, st1, props.parent, 0, size, mtime,
                                      cluster)

RECURSIVE statistics_update_ancestors(_, _, _, _, _, _, _)
statistics_update_ancestors(ns, st, node, population, size, mtime, cluster) ==
    IF node = 0 THEN st
    ELSE LET props == node_get_properties(ns, node) IN
         IF props = None THEN st
         ELSE statistics_update_ancestors(
                  ns,
                  statistics_update(st, props.parent, population, size,
                                    mtime, cluster),
                  props.parent, 0, size, mtime, cluster)

\* `on delete cascade' of the tables attributes and policy: a statement that
\* deletes versions or nodes deletes the rows that refer to them
on_delete_cascade ==
    LET serials == {v.serial : v \in versions} \ {v.serial : v \in versions'}
        gone == NodeSet(nodes) \ NodeSet(nodes')
    IN  /\ attributes' = {a \in attributes : a.serial \notin serials}
        /\ policy' = {r \in policy : r.node \notin gone}

\* one more call of the interface (or clock tick) in a run of bounded length
Count ==
    /\ calls < MaxCalls
    /\ calls' = calls + 1
    /\ UNCHANGED <<seen, proc, listed>>

(* ------------------------------- nodes --------------------------------- *)
Init ==
    /\ nodes = {[node |-> ROOTNODE, parent |-> ROOTNODE, path |-> ""]}
    /\ versions = {}
    /\ statistics = {}
    /\ now = 1
    /\ calls = 0
    /\ seen = {}
    /\ proc = [p \in Procs |-> Idle]
    /\ attributes = {}
    /\ policy = {}
    /\ listed = None

Tick ==
    /\ Count
    /\ now < MaxTime
    /\ now' = now + 1
    /\ UNCHANGED <<nodes, versions, statistics>>
    /\ on_delete_cascade

node_create(parent, path) ==
    LET newid == lastrowid(NodeSet(nodes)) IN
    /\ Count
    /\ newid <= MaxNode
    /\ IF /\ path \notin {n.path : n \in nodes}
          /\ (parent \in NodeSet(nodes) \/ parent = newid)
       THEN nodes' = nodes \cup
                {[node |-> newid, parent |-> parent, path |-> path]}
       ELSE nodes' = nodes
    /\ UNCHANGED <<versions, statistics, now>>
    /\ on_delete_cascade

\* rows left after `delete from nodes where node in del' with its cascades
DeleteNodes(ns, del) ==
    LET gone == CascadeNodes(ns, del) IN {n \in ns : n.node \notin gone}

DeleteNodeVersions(ns, vs, del) ==
    LET gone == CascadeNodes(ns, del) IN {v \in vs : v.node \notin gone}

DeleteNodeStatistics(ns, st, del) ==
    LET gone == CascadeNodes(ns, del) IN {s \in st : s.node \notin gone}

\* multiset of the hash column of the selected rows
HashBag(sel) ==
    [h \in {v.hash : v \in sel} |-> Cardinality({v \in sel : v.hash = h})]

\* `select node from nodes where parent = ?'
ParentIs(ns, parent) == {n.node : n \in {m \in ns : m.parent = parent}}

\* the versions node_purge_children selects
purge_children_selection(parent, before, cluster) ==
    {v \in versions : /\ v.node \in ParentIs(nodes, parent)
                      /\ v.cluster = cluster
                      /\ v.mtime <= before}

\* the versions node_purge selects
purge_selection(node, before, cluster) ==
    {v \in versions : /\ v.node = node
                      /\ v.cluster = cluster
                      /\ v.mtime <= before}

\* what node_purge_children returns: the hashes of the selected versions
node_purge_children_return(parent, before, cluster) ==
    HashBag(purge_children_selection(parent, before, cluster))

\* what node_purge returns: the hashes of the selected versions
node_purge_return(node, before, cluster) ==
    HashBag(purge_selection(node, before, cluster))

node_purge_children(parent, before, cluster) ==
    /\ Count
    /\ LET children == ParentIs(nodes, parent)
           sel == purge_children_selection(parent, before, cluster)
           nr == Cardinality(sel)
           size == SumSize(sel)
           st1 == statistics_update(statistics, parent, -nr, -size, now,
                                    cluster)
           st2 == statistics_update_ancestors(nodes, st1, parent, -nr, -size,
                                              now, cluster)
           vs1 == versions \ sel
           del == {c \in children : {v \in vs1 : v.node = c} = {}}
       IN
       IF nr = 0
       THEN UNCHANGED <<nodes, versions, statistics, now>>
       ELSE /\ UNCHANGED now
            /\ nodes' = DeleteNodes(nodes, del)
            /\ versions' = DeleteNodeVersions(nodes, vs1, del)
            /\ Terminates(parent)
            /\ statistics' = DeleteNodeStatistics(nodes, st2, del)
    /\ on_delete_cascade

\* node_purge going on to the delete statements whatever the count is
node_purge_unchecked(node, before, cluster) ==
    /\ Count
    /\ LET sel == purge_selection(node, before, cluster)
           nr == Cardinality(sel)
           size == SumSize(sel)
           st1 == statistics_update_ancestors(nodes, statistics, node, -nr,
                                              -size, now, cluster)
           vs1 == versions \ sel
           del == IF {v \in vs1 : v.node = node} = {} THEN {node} ELSE {}
       IN
       /\ UNCHANGED now
       /\ nodes' = DeleteNodes(nodes, del)
       /\ versions' = DeleteNodeVersions(nodes, vs1, del)
       /\ Terminates(node)
       /\ statistics' = DeleteNodeStatistics(nodes, st1, del)
    /\ on_delete_cascade

node_purge(node, before, cluster) ==
    /\ Count
    /\ LET sel == purge_selection(node, before, cluster)
           nr == Cardinality(sel)
           size == SumSize(sel)
           st1 == statistics_update_ancestors(nodes, statistics, node, -nr,
                                              -size, now, cluster)
           vs1 == versions \ sel
           del == IF {v \in vs1 : v.node = node} = {} THEN {node} ELSE {}
       IN
       IF nr = 0
       THEN UNCHANGED <<nodes, versions, statistics, now>>
       ELSE /\ UNCHANGED now
            /\ nodes' = DeleteNodes(nodes, del)
            /\ versions' = DeleteNodeVersions(nodes, vs1, del)
            /\ Terminates(node)
            /\ statistics' = DeleteNodeStatistics(nodes, st1, del)
    /\ on_delete_cascade

\* the loop over `group by cluster' of node_remove
RECURSIVE RemoveGroups(_, _, _, _, _)
RemoveGroups(ns, st, vs, node, cs) ==
    IF cs = {} THEN st
    ELSE LET cluster == CHOOSE c \in cs : TRUE
             grp == {v \in vs : v.node = node /\ v.cluster = cluster}
         IN RemoveGroups(ns,
                statistics_update_ancestors(ns, st, node, -Cardinality(grp),
                                            -SumSize(grp), now, cluster),
                vs, node, cs \ {cluster})

\* what node_remove returns
node_remove_return(node) == node_count_children(node) = 0

node_remove(node) ==
    /\ Count
    /\ IF node_count_children(node) # 0
       THEN UNCHANGED <<nodes, versions, statistics, now>>
       ELSE LET cs == {v.cluster : v \in {w \in versions : w.node = node}} IN
            /\ UNCHANGED now
            /\ nodes' = DeleteNodes(nodes, {node})
            /\ versions' = DeleteNodeVersions(nodes, versions, {node})
            /\ cs # {} => Terminates(node)
            /\ statistics' = DeleteNodeStatistics(
                   nodes, RemoveGroups(nodes, statistics, versions, node, cs),
                   {node})
    /\ on_delete_cascade

(* ------------------------------ versions ------------------------------- *)
\* what version_create returns: the (serial, mtime) of the new version
version_create_return ==
    [serial |-> lastrowid({v.serial : v \in versions}), mtime |-> now]

version_create(node, hash, size, source, muser, cluster) ==
    LET serial == lastrowid({v.serial : v \in versions})
        mtime == now
    IN
    /\ Count
    /\ serial <= MaxSerial
    /\ UNCHANGED <<nodes, now>>
    /\ IF node \in NodeSet(nodes)
       THEN /\ versions' = versions \cup
                   {[serial |-> serial, node |-> node, hash |-> hash,
                     size |-> size, source |-> source, mtime |-> mtime,
                     muser |-> muser, cluster |-> cluster]}
            /\ Terminates(node)
            /\ statistics' = statistics_update_ancestors(
                   nodes, statistics, node, 1, size, mtime, cluster)
       ELSE UNCHANGED <<versions, statistics>>
    /\ on_delete_cascade

\* version_lookup taking the maximum serial inside the cluster
version_lookup_in_cluster(vs, node, before, cluster) ==
    LET cand == {v \in vs : /\ v.node = node
                            /\ v.mtime < before
                            /\ v.cluster = cluster}
        props == {v \in cand : v.serial = SetMax({w.serial : w \in cand})}
    IN IF cand = {} THEN None ELSE CHOOSE v \in props : TRUE

\* version_lookup without the condition on the node
version_lookup_any_node(vs, node, before, cluster) ==
    LET cand == {v \in vs : v.mtime < before}
        props == {v \in cand : /\ v.serial = SetMax({w.serial : w \in cand})
                               /\ v.cluster = cluster}
    IN IF cand = {} \/ props = {} THEN None ELSE CHOOSE v \in props : TRUE

version_lookup(vs, node, before, cluster) ==
    LET cand == {v \in vs : v.node = node /\ v.mtime < before}
        props == {v \in cand : /\ v.serial = SetMax({w.serial : w \in cand})
                               /\ v.cluster = cluster}
    IN IF cand = {} \/ props = {} THEN None ELSE CHOOSE v \in props : TRUE

\* version_get_properties without the condition on the serial
version_get_properties_first(vs, serial) ==
    IF vs = {} THEN None
    ELSE CHOOSE v \in vs : \A w \in vs : v.serial <= w.serial

version_get_properties(vs, serial) ==
    LET r == {v \in vs : v.serial = serial} IN
    IF r = {} THEN None ELSE CHOOSE v \in r : TRUE

\* version_recluster setting the mtime of the version as well
version_recluster_touching(serial, cluster) ==
    /\ Count
    /\ LET props == version_get_properties(versions, serial) IN
       IF props = None
       THEN UNCHANGED <<nodes, versions, statistics, now>>
       ELSE IF cluster = props.cluster
       THEN UNCHANGED <<nodes, versions, statistics, now>>
       ELSE LET st1 == statistics_update_ancestors(
                           nodes, statistics, props.node, -1, -props.size, now,
                           props.cluster)
                st2 == statistics_update_ancestors(
                           nodes, st1, props.node, 1, props.size, now, cluster)
            IN /\ UNCHANGED <<nodes, now>>
               /\ versions' = (versions \ {props})
                      \cup {[props EXCEPT !.cluster = cluster, !.mtime = now]}
               /\ Terminates(props.node)
               /\ statistics' = st2
    /\ on_delete_cascade

\* version_recluster moving the statistics without updating the version row
version_recluster_keeps_row(serial, cluster) ==
    /\ Count
    /\ LET props == version_get_properties(versions, serial) IN
       IF props = None
       THEN UNCHANGED <<nodes, versions, statistics, now>>
       ELSE IF cluster = props.cluster
       THEN UNCHANGED <<nodes, versions, statistics, now>>
       ELSE LET st1 == statistics_update_ancestors(
                           nodes, statistics, props.node, -1, -props.size, now,
                           props.cluster)
                st2 == statistics_update_ancestors(
                           nodes, st1, props.node, 1, props.size, now, cluster)
            IN /\ UNCHANGED <<nodes, versions, now>>
               /\ Terminates(props.node)
               /\ statistics' = st2
    /\ on_delete_cascade

version_recluster(serial, cluster) ==
    /\ Count
    /\ LET props == version_get_properties(versions, serial) IN
       IF props = None
       THEN UNCHANGED <<nodes, versions, statistics, now>>
       ELSE IF cluster = props.cluster
       THEN UNCHANGED <<nodes, versions, statistics, now>>
       ELSE LET st1 == statistics_update_ancestors(
                           nodes, statistics, props.node, -1, -props.size, now,
                           props.cluster)
                st2 == statistics_update_ancestors(
                           nodes, st1, props.node, 1, props.size, now, cluster)
            IN /\ UNCHANGED <<nodes, now>>
               /\ versions' = (versions \ {props})
                      \cup {[props EXCEPT !.cluster = cluster]}
               /\ Terminates(props.node)
               /\ statistics' = st2
    /\ on_delete_cascade

\* what version_remove returns: the hash of the version, None without one
version_remove_return(serial) ==
    LET props == version_get_properties(versions, serial) IN
    IF props = None THEN None ELSE props.hash

\* version_remove deleting every version of the node of the serial
version_remove_of_node(serial) ==
    /\ Count
    /\ LET props == version_get_properties(versions, serial) IN
       IF props = None
       THEN UNCHANGED <<nodes, versions, statistics, now>>
       ELSE /\ UNCHANGED <<nodes, now>>
            /\ versions' = {v \in versions : v.node # props.node}
            /\ Terminates(props.node)
            /\ statistics' = statistics_update_ancestors(
                   nodes, statistics, props.node, -1, -props.size, now,
                   props.cluster)
    /\ on_delete_cascade

version_remove(serial) ==
    /\ Count
    /\ LET props == version_get_properties(versions, serial) IN
       IF props = None
       THEN UNCHANGED <<nodes, versions, statistics, now>>
       ELSE /\ UNCHANGED <<nodes, now>>
            /\ versions' = versions \ {props}
            /\ Terminates(props.node)
            /\ statistics' = statistics_update_ancestors(
                   nodes, statistics, props.node, -1, -props.size, now,
                   props.cluster)
    /\ on_delete_cascade

(* --------------------------- specification ----------------------------- *)
Next ==
    \/ Tick
    \/ \E parent \in NodeIds, path \in Paths : node_create(parent, path)
    \/ \E node \in NodeIds : node_remove(node)
    \/ \E parent \in NodeIds, before \in Befores, cluster \in Clusters :
           node_purge_children(parent, before, cluster)
    \/ \E node \in NodeIds, before \in Befores, cluster \in Clusters :
           node_purge(node, before, cluster)
    \/ \E node \in NodeIds, hash \in Hashes, size \in Sizes,
          source \in Sources, muser \in Musers, cluster \in Clusters :
           version_create(node, hash, size, source, muser, cluster)
    \/ \E serial \in Serials, cluster \in Clusters :
           version_recluster(serial, cluster)
    \/ \E serial \in Serials : version_remove(serial)

Spec == Init /\ [][Next]_vars

(* ------------------------ attributes and policy ------------------------ *)
\* `select key, value from attributes where serial = ?'
attribute_get(as, serial) ==
    {<<a.key, a.value>> : a \in {b \in as : b.serial = serial}}

\* `insert into attributes' of one row, without `or replace'
attribute_insert(as, serial, key, value) ==
    as \cup {[serial |-> serial, key |-> key, value |-> value]}

\* `insert or replace into attributes' of one row: the primary key is
\* (serial, key)
attribute_replace(as, serial, key, value) ==
    {a \in as : ~(a.serial = serial /\ a.key = key)}
    \cup {[serial |-> serial, key |-> key, value |-> value]}

\* executemany over the (key, value) pairs of items, in their order
RECURSIVE attribute_rows(_, _, _)
attribute_rows(as, serial, items) ==
    IF items = <<>> THEN as
    ELSE attribute_rows(
             attribute_replace(as, serial, items[1][1], items[1][2]),
             serial, Tail(items))

\* attribute_set without the foreign key of attributes.serial
attribute_set_unchecked(serial, items) ==
    /\ Count
    /\ attributes' = attribute_rows(attributes, serial, items)
    /\ UNCHANGED <<nodes, versions, statistics, now, policy>>

\* the insert fails on the foreign key when no version has the serial
attribute_set(serial, items) ==
    /\ calls < MaxCalls
    /\ IF serial \in {v.serial : v \in versions}
       THEN attributes' = attribute_rows(attributes, serial, items)
       ELSE attributes' = attributes
    /\ UNCHANGED <<nodes, versions, statistics, now, policy>>
    /\ Count

\* keys = {} is keys=(): every attribute of the serial
attribute_del(serial, keys) ==
    /\ Count
    /\ attributes' = {a \in attributes :
                         ~(/\ a.serial = serial
                           /\ (keys = {} \/ a.key \in keys))}
    /\ UNCHANGED <<nodes, versions, statistics, now, policy>>

\* attribute_copy deleting the attributes of dest before the insert
attribute_copied_replacing(as, vs, source, dest) ==
    LET rows == {a \in as : a.serial = source} IN
    IF rows = {} \/ dest \notin {v.serial : v \in vs}
    THEN as
    ELSE {a \in as : a.serial # dest}
         \cup {[r EXCEPT !.serial = dest] : r \in rows}

\* `insert or replace into attributes select dest, key, value ... where
\* serial = source': fails on the foreign key when rows are selected and no
\* version has the serial dest
attribute_copied(as, vs, source, dest) ==
    LET rows == {a \in as : a.serial = source} IN
    IF rows = {} \/ dest \notin {v.serial : v \in vs}
    THEN as
    ELSE {a \in as : ~(a.serial = dest /\ a.key \in {r.key : r \in rows})}
         \cup {[r EXCEPT !.serial = dest] : r \in rows}

attribute_copy(source, dest) ==
    /\ calls < MaxCalls
    /\ attributes' = attribute_copied(attributes, versions, source, dest)
    /\ UNCHANGED <<nodes, versions, statistics, now, policy>>
    /\ Count

\* `insert or replace into policy' of the items of a dictionary; fails on
\* the foreign key when the node does not exist
policy_set(node, items) ==
    /\ Count
    /\ IF node \in NodeSet(nodes)
       THEN policy' = {r \in policy :
                          ~(r.node = node /\ r.key \in {i[1] : i \in items})}
                      \cup {[node |-> node, key |-> i[1], value |-> i[2]] :
                               i \in items}
       ELSE policy' = policy
    /\ UNCHANGED <<nodes, versions, statistics, now, attributes>>

\* the attributes and the policies of the callers
AttrKeys == {"color", "archived"}
AttrValues == {"red", "blue"}
MaxItems == 2
Items == UNION {[1..k -> AttrKeys \X AttrValues] : k \in 0..MaxItems}
Policies == {{<<"versioning", "auto">>}}

NextUpsert ==
    \/ \E serial \in Serials, items \in Items : attribute_set(serial, items)
    \/ \E serial \in Serials, keys \in SUBSET AttrKeys :
           attribute_del(serial, keys)
    \/ \E source \in Serials, dest \in Serials : attribute_copy(source, dest)

NextAttr ==
    \/ Next
    \/ NextUpsert
    \/ \E node \in NodeIds, items \in Policies : policy_set(node, items)

SpecAttr == Init /\ [][NextAttr]_vars

(* --------------------- a node with three versions ---------------------- *)
\* The state after node_create(0, "a"), node_create(1, "a/b") and three
\* version_create calls at a/b in cluster 0, of any sizes.
InitPurge ==
    \E s1 \in Sizes, s2 \in Sizes, s3 \in Sizes :
        LET ns == {[node |-> ROOTNODE, parent |-> ROOTNODE, path |-> ""],
                   [node |-> 1, parent |-> ROOTNODE, path |-> "a"],
                   [node |-> 2, parent |-> 1, path |-> "a/b"]}
            row(serial, size) ==
                [serial |-> serial, node |-> 2, hash |-> "H1", size |-> size,
                 source |-> 0, mtime |-> 1, muser |-> "u", cluster |-> 0]
            st1 == statistics_update_ancestors(ns, {}, 2, 1, s1, 1, 0)
            st2 == statistics_update_ancestors(ns, st1, 2, 1, s2, 1, 0)
            st3 == statistics_update_ancestors(ns, st2, 2, 1, s3, 1, 0)
        IN  /\ nodes = ns
            /\ versions = {row(1, s1), row(2, s2), row(3, s3)}
            /\ statistics = st3
            /\ now = 1
            /\ calls = 0
            /\ seen = {}
            /\ proc = [p \in Procs |-> Idle]
            /\ attributes = {}
            /\ policy = {}
            /\ listed = None

SpecPurge == InitPurge /\ [][Next]_vars

(* ----------------- two lookups, one after the other -------------------- *)
\* A reader calls version_lookup and keeps what it found: seen is the versions
\* table that first call read, against which a later call is compared.
version_lookup_first ==
    /\ calls < MaxCalls
    /\ calls' = calls + 1
    /\ versions # {}
    /\ seen' = versions
    /\ UNCHANGED <<nodes, versions, statistics, now, proc, attributes, policy,
                 listed>>

NextLookup ==
    \/ Next
    \/ version_lookup_first

SpecLookup == Init /\ [][NextLookup]_vars

(* ------------------------------ listing -------------------------------- *)
\* In the listing specifications a path is a sequence of characters, a
\* character a number 1..MaxChar in the order of its code point; MaxChar
\* stands for unichr(0xffff) and occurs in the paths of SpecListAny only.
MaxChar == 4
\* the delimiter '/' and the characters of paths: one below the delimiter,
\* the delimiter, the one after it
Slash == 2
PathChars == {1, 2, 3}
MaxPathLen == 3
MaxPaths == 3
Limits == {1, 2, 3}

\* the raised RuntimeError, told from every string by a number that is no
\* character
RuntimeError == <<-1>>
OperationalError == [error |-> "OperationalError"]

\* a < b for strings, character by character (sqlite BINARY collation and
\* python's comparison of unicode strings)
StrLess(a, b) ==
    \E i \in 1..(Len(a) + 1) :
        /\ i <= Len(b)
        /\ \A j \in 1..(i - 1) : a[j] = b[j]
        /\ (i = Len(a) + 1 \/ a[i] < b[i])

\* strnextling appending the last character instead of incrementing one
strnextling_appending(prefix) ==
    IF prefix = <<>> THEN <<MaxChar>>
    ELSE LET c == prefix[Len(prefix)] IN
         IF c >= MaxChar THEN RuntimeError
         ELSE prefix \o <<MaxChar>>

strnextling(prefix) ==
    IF prefix = <<>> THEN <<MaxChar>>
    ELSE LET c == prefix[Len(prefix)] IN
         IF c >= MaxChar THEN RuntimeError
         ELSE SubSeq(prefix, 1, Len(prefix) - 1) \o <<c + 1>>

strprevling(prefix) ==
    IF prefix = <<>> THEN prefix
    ELSE LET c == prefix[Len(prefix)]
             s == SubSeq(prefix, 1, Len(prefix) - 1)
         IN  IF c > 0 THEN s \o <<c - 1, MaxChar>> ELSE s

\* str.find(delimiter, pfz) with positions counted from 1: the first position
\* > pfz at which delimiter occurs in path, 0 if there is none
Find(path, delimiter, pfz) ==
    LET dz == Len(delimiter)
        at == {i \in (pfz + 1)..(Len(path) - dz + 1) :
                  SubSeq(path, i, i + dz - 1) = delimiter}
    IN  IF at = {} THEN 0 ELSE CHOOSE i \in at : \A j \in at : i <= j

(* the terms of a filter query, as _regexfilter splits them into
   (neg, key, op, value); NoMatch is a term the expression does not match,
   "" an empty group *)
NoMatch == [nomatch |-> TRUE]
Keys == {"color", "archived"}
Values == {"red", "blue"}
Ops == {"==", "!="}
Terms ==
    [neg : {"", "!"}, key : Keys, op : {""}, value : {""}]
    \cup [neg : {""}, key : Keys, op : Ops, value : Values]
    \cup [neg : {""}, key : Keys, op : {""}, value : Values]
    \cup {NoMatch}
MaxTerms == 2

\* the buckets (included, excluded, opers) of _parse_filters, each in the
\* order of the terms
RECURSIVE parse_filters(_)
parse_filters(preterms) ==
    IF preterms = <<>>
    THEN [included |-> <<>>, excluded |-> <<>>, opers |-> <<>>]
    ELSE LET m == Head(preterms)
             rest == parse_filters(Tail(preterms))
         IN  IF m = NoMatch THEN rest
             ELSE IF m.neg # ""
             THEN [rest EXCEPT !.excluded = <<m.key>> \o @]
             ELSE IF m.value = ""
             THEN [rest EXCEPT !.included = <<m.key>> \o @]
             ELSE IF m.op # ""
             THEN [rest EXCEPT !.opers = <<<<m.key, m.op, m.value>>>> \o @]
             ELSE rest

\* the word "and" of a query
And == [cond |-> "and"]

\* ' and '.join(subqlist): the conditions with the word "and" between them
RECURSIVE JoinAnd(_)
JoinAnd(subqlist) ==
    IF Len(subqlist) <= 1 THEN subqlist
    ELSE <<Head(subqlist), And>> \o JoinAnd(Tail(subqlist))

\* _construct_filters: the text appended to the query, as its sequence of
\* conditions and words; <<>> stands for the None it returns when there is
\* nothing to append
construct_filters(filterq) ==
    IF filterq = <<>> THEN <<>>
    ELSE LET f == parse_filters(filterq)
             inc == IF f.included # <<>>
                    THEN <<[cond |-> "key in", keys |-> f.included]>>
                    ELSE <<>>
             exc == IF f.excluded # <<>>
                    THEN <<[cond |-> "key not in", keys |-> f.excluded]>>
                    ELSE <<>>
             ops == IF f.opers # <<>>
                    THEN <<[cond |-> "key op value", opers |-> f.opers]>>
                    ELSE <<>>
             subqlist == inc \o exc \o ops
         IN  JoinAnd(subqlist)

\* the where clause of latest_version_list as it stands before the filter is
\* appended, with its arguments bound
where_clause(before, except_cluster, parent, start, nextling) ==
    <<[cond |-> "v.serial = max(serial)", before |-> before], And,
      [cond |-> "v.cluster !=", cluster |-> except_cluster], And,
      [cond |-> "v.node in children", parent |-> parent], And,
      [cond |-> "a.serial = v.serial"], And,
      [cond |-> "n.node = v.node"], And,
      [cond |-> "n.path >", start |-> start], And,
      [cond |-> "n.path <", nextling |-> nextling]>>

\* q.replace("and a.serial = v.serial ", "")
RECURSIVE without_attributes(_)
without_attributes(q) ==
    IF Len(q) < 2 THEN q
    ELSE IF q[1] = And /\ q[2].cond = "a.serial = v.serial"
    THEN without_attributes(SubSeq(q, 3, Len(q)))
    ELSE <<Head(q)>> \o without_attributes(Tail(q))

\* the query latest_version_list executes: [from |-> tables, where |-> text]
list_query(before, except_cluster, parent, start, nextling, filterq) ==
    LET q == where_clause(before, except_cluster, parent, start, nextling)
        subq == construct_filters(filterq)
    IN  IF subq # <<>>
        THEN [from |-> "attributes a, versions v, nodes n", where |-> q \o subq]
        ELSE [from |-> "versions v, nodes n", where |-> without_attributes(q)]

\* the engine accepts a where clause of conditions separated by "and"
WellFormed(where) ==
    /\ Len(where) % 2 = 1
    /\ \A i \in 1..Len(where) : (where[i] = And) <=> (i % 2 = 0)

\* a op b for attribute values
Compare(a, op, b) == IF op = "==" THEN a = b ELSE a # b

\* the conditions of the query with every version before `before' taken for
\* the newest one
Holds_any_version(c, a, v, n) ==
    CASE c.cond = "v.serial = max(serial)" -> v.mtime < c.before
      [] c.cond = "v.cluster !=" -> v.cluster # c.cluster
      [] c.cond = "v.node in children" -> v.node \in ParentIs(nodes, c.parent)
      [] c.cond = "a.serial = v.serial" -> a.serial = v.serial
      [] c.cond = "n.node = v.node" -> n.node = v.node
      [] c.cond = "n.path >" -> StrLess(c.start, n.path)
      [] c.cond = "n.path <" -> StrLess(n.path, c.nextling)
      [] c.cond = "key in" ->
             \E i \in 1..Len(c.keys) : a.key = c.keys[i]
      [] c.cond = "key not in" ->
             \A i \in 1..Len(c.keys) : a.key # c.keys[i]
      [] c.cond = "key op value" ->
             \E i \in 1..Len(c.opers) :
                 /\ a.key = c.opers[i][1]
                 /\ Compare(a.value, c.opers[i][2], c.opers[i][3])

\* condition c on the joined rows a (attributes), v (versions), n (nodes)
Holds(c, a, v, n) ==
    CASE c.cond = "v.serial = max(serial)" ->
             LET upto == {x \in versions : /\ x.node = v.node
                                            /\ x.mtime < c.before}
             IN  /\ upto # {}
                 /\ v.serial = SetMax({x.serial : x \in upto})
      [] c.cond = "v.cluster !=" -> v.cluster # c.cluster
      [] c.cond = "v.node in children" -> v.node \in ParentIs(nodes, c.parent)
      [] c.cond = "a.serial = v.serial" -> a.serial = v.serial
      [] c.cond = "n.node = v.node" -> n.node = v.node
      [] c.cond = "n.path >" -> StrLess(c.start, n.path)
      [] c.cond = "n.path <" -> StrLess(n.path, c.nextling)
      [] c.cond = "key in" ->
             \E i \in 1..Len(c.keys) : a.key = c.keys[i]
      [] c.cond = "key not in" ->
             \A i \in 1..Len(c.keys) : a.key # c.keys[i]
      [] c.cond = "key op value" ->
             \E i \in 1..Len(c.opers) :
                 /\ a.key = c.opers[i][1]
                 /\ Compare(a.value, c.opers[i][2], c.opers[i][3])

\* `select distinct n.path, v.serial ...': the rows of the result, or the
\* engine's error for a query it cannot parse
Select(query) ==
    IF ~WellFormed(query.where) THEN OperationalError
    ELSE LET as == IF query.from = "attributes a, versions v, nodes n"
                   THEN attributes ELSE {None}
             conds == {query.where[i] :
                          i \in {j \in 1..Len(query.where) : j % 2 = 1}}
         IN  {<<n.path, v.serial>> : <<a, v, n>> \in
                 {t \in as \X versions \X nodes :
                     \A c \in conds : Holds(c, t[1], t[2], t[3])}}

\* `order by n.path'
RECURSIVE OrderByPath(_)
OrderByPath(rows) ==
    IF rows = {} THEN <<>>
    ELSE LET r == CHOOSE x \in rows :
                      \A y \in rows : y[1] = x[1] \/ StrLess(x[1], y[1])
         IN  <<r>> \o OrderByPath(rows \ {r})

\* the loop of latest_version_list testing the limit after a match that ends
\* with the delimiter too
RECURSIVE list_loop_marker_limited(_, _, _, _, _, _)
list_loop_marker_limited(A, start, k, matches, prefixes, count) ==
    LET rows == OrderByPath(Select(list_query(
                    A.before, A.except_cluster, A.parent, start, A.nextling,
                    A.filterq)))
    IN
    IF k > Len(rows) THEN [matches |-> matches, prefixes |-> prefixes]
    ELSE LET props == rows[k]
             path == props[1]
             dz == Len(A.delimiter)
             idx == Find(path, A.delimiter, A.pfz)
             pf == SubSeq(path, 1, idx + dz - 1)
         IN
         IF idx = 0 \/ idx + dz - 1 = Len(path)
         THEN IF count + 1 >= A.limit
              THEN [matches |-> Append(matches, props), prefixes |-> prefixes]
              ELSE list_loop_marker_limited(A, start, k + 1,
                                            Append(matches, props), prefixes,
                                            count + 1)
         ELSE IF count >= A.limit
         THEN [matches |-> matches, prefixes |-> Append(prefixes, pf)]
         ELSE list_loop_marker_limited(A, strnextling(pf), 1, matches,
                                       Append(prefixes, pf), count)

\* the loop of latest_version_list with a delimiter: k is the position of
\* the cursor in the result of the query last executed, with start as bound
RECURSIVE list_loop(_, _, _, _, _, _)
list_loop(A, start, k, matches, prefixes, count) ==
    LET rows == OrderByPath(Select(list_query(
                    A.before, A.except_cluster, A.parent, start, A.nextling,
                    A.filterq)))
    IN
    IF k > Len(rows) THEN [matches |-> matches, prefixes |-> prefixes]
    ELSE LET props == rows[k]
             path == props[1]
             dz == Len(A.delimiter)
             idx == Find(path, A.delimiter, A.pfz)
             pf == SubSeq(path, 1, idx + dz - 1)
         IN
         IF idx = 0
         THEN IF count + 1 >= A.limit
              THEN [matches |-> Append(matches, props), prefixes |-> prefixes]
              ELSE list_loop(A, start, k + 1, Append(matches, props),
                             prefixes, count + 1)
         ELSE IF idx + dz - 1 = Len(path)
         THEN list_loop(A, start, k + 1, Append(matches, props), prefixes,
                        count + 1)
         ELSE IF count >= A.limit
         THEN [matches |-> matches, prefixes |-> Append(prefixes, pf)]
         ELSE list_loop(A, strnextling(pf), 1, matches, Append(prefixes, pf),
                        count)

\* latest_version_list taking start as it is given
latest_version_list_given_start(parent, prefix, delimiter, start, limit, before, except_cluster, filterq) ==
    LET nextling == strnextling(prefix)
        query == list_query(before, except_cluster, parent, start, nextling,
                            filterq)
        A == [before |-> before, except_cluster |-> except_cluster,
              parent |-> parent, nextling |-> nextling, filterq |-> filterq,
              delimiter |-> delimiter, pfz |-> Len(prefix), limit |-> limit]
    IN  IF ~WellFormed(query.where) THEN OperationalError
        ELSE IF delimiter = <<>>
        THEN LET rows == OrderByPath(Select(query)) IN
             [matches |-> SubSeq(rows, 1, IF limit < Len(rows) THEN limit
                                          ELSE Len(rows)),
              prefixes |-> <<>>]
        ELSE list_loop(A, start, 1, <<>>, <<>>, 0)

\* what latest_version_list returns; delimiter <<>> is delimiter=None, start
\* <<>> the default '', filterq <<>> filterq=None; pathq is left at []
latest_version_list(parent, prefix, delimiter, start, limit, before, except_cluster, filterq) ==
    LET start1 == IF start = <<>> \/ StrLess(start, prefix)
                  THEN strprevling(prefix) ELSE start
        nextling == strnextling(prefix)
        query == list_query(before, except_cluster, parent, start1, nextling,
                            filterq)
        A == [before |-> before, except_cluster |-> except_cluster,
              parent |-> parent, nextling |-> nextling, filterq |-> filterq,
              delimiter |-> delimiter, pfz |-> Len(prefix), limit |-> limit]
    IN  IF ~WellFormed(query.where) THEN OperationalError
        ELSE IF delimiter = <<>>
        THEN LET rows == OrderByPath(Select(query)) IN
             [matches |-> SubSeq(rows, 1, IF limit < Len(rows) THEN limit
                                          ELSE Len(rows)),
              prefixes |-> <<>>]
        ELSE list_loop(A, start1, 1, <<>>, <<>>, 0)

\* a caller lists the children of the root, every cluster but 0; listed keeps
\* the arguments and what the call returned
list_call(prefix, delimiter, start, limit, before, filterq) ==
    /\ listed = None
    /\ calls < MaxCalls
    /\ calls' = calls + 1
    /\ listed' = [prefix |-> prefix, delimiter |-> delimiter,
                  start |-> start, limit |-> limit, before |-> before,
                  filterq |-> filterq,
                  return |-> latest_version_list(
                      ROOTNODE, prefix, delimiter, start, limit, before, 0,
                      filterq)]
    /\ UNCHANGED <<nodes, versions, statistics, now, seen, proc, attributes,
                   policy>>

\* the paths of the listing specification
AllPaths == UNION {[1..k -> PathChars] : k \in 1..MaxPathLen}

\* The state after node_create(0, p) and version_create(node, ..., cluster 1)
\* for each path p of a set of at most MaxPaths paths, in the order of the
\* paths.
InitList ==
    \E f \in [1..MaxPaths -> AllPaths \cup {<<>>}] :
        LET P == {f[i] : i \in 1..MaxPaths} \ {<<>>}
            id(p) == 1 + Cardinality({q \in P : StrLess(q, p)})
        IN  /\ nodes = {[node |-> ROOTNODE, parent |-> ROOTNODE, path |-> <<>>]}
                       \cup {[node |-> id(p), parent |-> ROOTNODE, path |-> p]
                             : p \in P}
            /\ versions = {[serial |-> id(p), node |-> id(p), hash |-> "H1",
                            size |-> 1, source |-> 0, mtime |-> 1,
                            muser |-> "u", cluster |-> 1] : p \in P}
            /\ statistics = IF P = {} THEN {}
                            ELSE {[node |-> ROOTNODE, cluster |-> 1,
                                   population |-> Cardinality(P),
                                   size |-> Cardinality(P), mtime |-> 1]}
            /\ now = 1
            /\ calls = 0
            /\ seen = {}
            /\ proc = [p \in Procs |-> Idle]
            /\ attributes = {}
            /\ policy = {}
            /\ listed = None

Prefixes == {<<>>, <<1, Slash>>}

NextList ==
    \E prefix \in Prefixes, delimiter \in {<<>>, <<Slash>>}, limit \in Limits :
        list_call(prefix, delimiter, <<>>, limit, inf, <<>>)

SpecList == InitList /\ [][NextList]_vars

\* The listing over paths that may hold any character, unichr(0xffff)
\* included. The paths are created in their order, each with a version of
\* cluster 1 at time 1, and the last of them is of one of four kinds: like
\* the others ("plain"), with its version in cluster 0 ("excluded"), created
\* under the first node instead of the root ("nested"), or with its version
\* created at time 2 ("late").
AnyPaths == UNION {[1..k -> 1..MaxChar] : k \in 1..MaxPathLen}
Kinds == {"plain", "excluded", "nested", "late"}

\* the statistics after version_create of each version, in serial order
RECURSIVE StatisticsOf(_, _)
StatisticsOf(ns, vs) ==
    IF vs = {} THEN {}
    ELSE LET v == CHOOSE x \in vs : \A y \in vs : y.serial <= x.serial IN
         statistics_update_ancestors(ns, StatisticsOf(ns, vs \ {v}), v.node,
                                     1, v.size, v.mtime, v.cluster)

InitListAny ==
    \E f \in [1..(MaxPaths - 1) -> AnyPaths \cup {<<>>}], kind \in Kinds :
        LET P == {f[i] : i \in 1..(MaxPaths - 1)} \ {<<>>}
            id(p) == 1 + Cardinality({q \in P : StrLess(q, p)})
            is(p, k) == /\ kind = k
                        /\ id(p) = Cardinality(P)
                        /\ k = "nested" => id(p) > 1
            ns == {[node |-> ROOTNODE, parent |-> ROOTNODE, path |-> <<>>]}
                  \cup {[node |-> id(p),
                         parent |-> IF is(p, "nested") THEN 1 ELSE ROOTNODE,
                         path |-> p] : p \in P}
            vs == {[serial |-> id(p), node |-> id(p), hash |-> "H1",
                    size |-> 1, source |-> 0,
                    mtime |-> IF is(p, "late") THEN 2 ELSE 1, muser |-> "u",
                    cluster |-> IF is(p, "excluded") THEN 0 ELSE 1]
                   : p \in P}
        IN  /\ nodes = ns
            /\ versions = vs
            /\ statistics = StatisticsOf(ns, vs)
            /\ now = 2
            /\ calls = 0
            /\ seen = {}
            /\ proc = [p \in Procs |-> Idle]
            /\ attributes = {}
            /\ policy = {}
            /\ listed = None

PrefixesAny == {<<>>, <<3>>}
Starts == {<<>>, <<1>>, <<3, 1>>}

NextListAny ==
    \E prefix \in PrefixesAny, delimiter \in {<<>>, <<Slash>>},
       start \in Starts, limit \in {1, MaxPaths} :
        list_call(prefix, delimiter, start, limit, 2, <<>>)

SpecListAny == InitListAny /\ [][NextListAny]_vars

\* The listing with a delimiter over one path of MaxPathLen + 1 characters,
\* long enough to hold a delimiter after a two-character start and before its
\* end, and at most one shorter path; both are children of the root with one
\* version in cluster 1.
DeepPaths == [1..(MaxPathLen + 1) -> 1..MaxChar]
ShortPaths == UNION {[1..k -> 1..MaxChar] : k \in 0..(MaxPathLen - 1)}

InitListDeep ==
    \E d \in DeepPaths, p \in ShortPaths :
        LET P == {d, p} \ {<<>>}
            id(q) == 1 + Cardinality({r \in P : StrLess(r, q)})
            ns == {[node |-> ROOTNODE, parent |-> ROOTNODE, path |-> <<>>]}
                  \cup {[node |-> id(q), parent |-> ROOTNODE, path |-> q]
                        : q \in P}
            vs == {[serial |-> id(q), node |-> id(q), hash |-> "H1",
                    size |-> 1, source |-> 0, mtime |-> 1, muser |-> "u",
                    cluster |-> 1] : q \in P}
        IN  /\ nodes = ns
            /\ versions = vs
            /\ statistics = StatisticsOf(ns, vs)
            /\ now = 2
            /\ calls = 0
            /\ seen = {}
            /\ proc = [q \in Procs |-> Idle]
            /\ attributes = {}
            /\ policy = {}
            /\ listed = None

NextListDeep ==
    \E prefix \in PrefixesAny, start \in Starts, limit \in {1, MaxPaths} :
        list_call(prefix, <<Slash>>, start, limit, inf, <<>>)

SpecListDeep == InitListDeep /\ [][NextListDeep]_vars

\* The listing after the versions of two children of the root were created,
\* reclustered and removed: the run makes its changes, then lists once.
InitListVersions ==
    /\ nodes = {[node |-> ROOTNODE, parent |-> ROOTNODE, path |-> <<>>],
                [node |-> 1, parent |-> ROOTNODE, path |-> <<1>>],
                [node |-> 2, parent |-> ROOTNODE, path |-> <<3>>]}
    /\ versions = {}
    /\ statistics = {}
    /\ now = 1
    /\ calls = 0
    /\ seen = {}
    /\ proc = [p \in Procs |-> Idle]
    /\ attributes = {}
    /\ policy = {}
    /\ listed = None

NextListVersions ==
    \/ listed = None /\ Tick
    \/ /\ listed = None
       /\ \E node \in {1, 2}, size \in Sizes, cluster \in Clusters :
              version_create(node, "H1", size, 0, "u", cluster)
    \/ /\ listed = None
       /\ \E serial \in Serials, cluster \in Clusters :
              version_recluster(serial, cluster)
    \/ /\ listed = None
       /\ \E serial \in Serials : version_remove(serial)
    \/ \E delimiter \in {<<>>, <<Slash>>}, before \in Befores :
           list_call(<<>>, delimiter, <<>>, MaxPaths, before, <<>>)

SpecListVersions == InitListVersions /\ [][NextListVersions]_vars

\* A caller computes strnextling of any string and compares any string with
\* it; listed keeps the two strings and what strnextling returned.
Strings == AnyPaths \cup {<<>>}

strnextling_call(prefix, s) ==
    /\ listed = None
    /\ calls < MaxCalls
    /\ calls' = calls + 1
    /\ listed' = [prefix |-> prefix, s |-> s, return |-> strnextling(prefix)]
    /\ UNCHANGED <<nodes, versions, statistics, now, seen, proc, attributes,
                   policy>>

NextStr ==
    /\ listed = None
    /\ \E prefix \in Strings, s \in Strings : strnextling_call(prefix, s)

SpecStr == Init /\ [][NextStr]_vars

\* The state after two nodes were created under the root, each with one
\* version in cluster 1, and attribute_set gave each version any attributes.
Absent == "-"
InitFilter ==
    \E g \in [{1, 2} -> [Keys -> Values \cup {Absent}]] :
        /\ nodes = {[node |-> ROOTNODE, parent |-> ROOTNODE, path |-> <<>>],
                    [node |-> 1, parent |-> ROOTNODE, path |-> <<1>>],
                    [node |-> 2, parent |-> ROOTNODE, path |-> <<3>>]}
        /\ versions = {[serial |-> i, node |-> i, hash |-> "H1", size |-> 1,
                        source |-> 0, mtime |-> 1, muser |-> "u",
                        cluster |-> 1] : i \in {1, 2}}
        /\ statistics = {[node |-> ROOTNODE, cluster |-> 1, population |-> 2,
                          size |-> 2, mtime |-> 1]}
        /\ now = 1
        /\ calls = 0
        /\ seen = {}
        /\ proc = [p \in Procs |-> Idle]
        /\ attributes = {[serial |-> i, key |-> k, value |-> g[i][k]] :
                            <<i, k>> \in {x \in {1, 2} \X Keys :
                                             g[x[1]][x[2]] # Absent}}
        /\ policy = {}
        /\ listed = None

FilterQs == UNION {[1..k -> Terms] : k \in 0..MaxTerms}

NextFilter ==
    \E filterq \in FilterQs :
        list_call(<<>>, <<>>, <<>>, MaxPaths, inf, filterq)

SpecFilter == InitFilter /\ [][NextFilter]_vars

\* the callers set, delete and copy the attributes of the two versions
SpecUpsert == InitFilter /\ [][NextUpsert]_vars

(* -------------------------- statistics_latest -------------------------- *)
\* the characters LIKE gives a meaning to; no path of the model holds them,
\* nor a letter, which LIKE compares without its case
Percent == MaxChar + 1
Underscore == MaxChar + 2
Backslash == MaxChar + 3

\* DBWorker.escape_like: a backslash before every backslash, '%' and '_'
RECURSIVE escape_like(_)
escape_like(str) ==
    IF str = <<>> THEN <<>>
    ELSE (IF Head(str) \in {Backslash, Percent, Underscore}
          THEN <<Backslash, Head(str)>> ELSE <<Head(str)>>)
         \o escape_like(Tail(str))

\* `str like pattern escape '\''
RECURSIVE Like(_, _)
Like(str, pattern) ==
    IF pattern = <<>> THEN str = <<>>
    ELSE IF Head(pattern) = Backslash /\ Len(pattern) >= 2
    THEN /\ str # <<>>
         /\ Head(str) = pattern[2]
         /\ Like(Tail(str), SubSeq(pattern, 3, Len(pattern)))
    ELSE IF Head(pattern) = Percent
    THEN \E k \in 0..Len(str) :
             Like(SubSeq(str, k + 1, Len(str)), Tail(pattern))
    ELSE IF Head(pattern) = Underscore
    THEN str # <<>> /\ Like(Tail(str), Tail(pattern))
    ELSE /\ str # <<>>
         /\ Head(str) = Head(pattern)
         /\ Like(Tail(str), Tail(pattern))

\* the rows of `versions v where serial = (select max(serial) from versions
\* where node = v.node and mtime < ?) and cluster != ?'
LatestVersions(before, except_cluster) ==
    {v \in versions :
        /\ v.mtime < before
        /\ \A w \in versions :
              (w.node = v.node /\ w.mtime < before) => w.serial <= v.serial
        /\ v.cluster # except_cluster}

\* max(mtime) of the rows, None (below every number) without a row
MaxMtime(vs) == IF vs = {} THEN 0 ELSE SetMax({v.mtime : v \in vs})

\* what statistics_latest returns: None or (count, size, mtime)
statistics_latest(node, before, except_cluster) ==
    LET props == node_get_properties(nodes, node)
        latest == LatestVersions(before, except_cluster)
        own == {v \in latest : v.node = node}
    IN  IF props = None THEN None
        ELSE IF own = {} THEN None
        ELSE LET v == CHOOSE x \in own : TRUE
                 first == {x \in latest : x.node \in ParentIs(nodes, node)}
                 count == Cardinality(first)
                 mtime == SetMax({v.mtime, MaxMtime(first)})
                 like == {n.node : n \in
                             {m \in nodes :
                                 Like(m.path, escape_like(props.path)
                                              \o <<Percent>>)}}
                 all == {x \in latest : x.node \in like}
             IN  IF count = 0 THEN <<0, 0, mtime>>
                 ELSE <<count, SumSize(all) - v.size,
                        SetMax({mtime, MaxMtime(all)})>>

\* a caller asks for the summary of a node; listed keeps the arguments and
\* what the call returned
statistics_latest_call(node, before, except_cluster) ==
    /\ listed = None
    /\ calls < MaxCalls
    /\ calls' = calls + 1
    /\ listed' = [node |-> node, before |-> before,
                  except_cluster |-> except_cluster,
                  return |-> statistics_latest(node, before, except_cluster)]
    /\ UNCHANGED <<nodes, versions, statistics, now, seen, proc, attributes,
                   policy>>

\* The state after node_create of 'a' under the root, of 'a/b' under the root
\* or 'a', and of 'a0' under any of them, and after version_create, in the
\* order of the nodes and at time 1, of at most one version for each node, of
\* any size and cluster; one node may have got a second version at time 2.
LatestPaths == <<<<1>>, <<1, Slash, 1>>, <<1, 3>>>>
VersionChoices == {None} \cup [cluster : Clusters, size : Sizes]
SecondVersions == {None} \cup [node : 1..3, cluster : Clusters]

InitLatest ==
    \E p2 \in {0, 1}, p3 \in {0, 1, 2}, f \in [0..3 -> VersionChoices],
       g \in SecondVersions :
        LET parent == <<ROOTNODE, p2, p3>>
            ns == {[node |-> ROOTNODE, parent |-> ROOTNODE, path |-> <<>>]}
                  \cup {[node |-> i, parent |-> parent[i],
                         path |-> LatestPaths[i]] : i \in 1..3}
            with == {i \in 0..3 : f[i] # None}
            id(i) == 1 + Cardinality({j \in with : j < i})
            vs1 == {[serial |-> id(i), node |-> i, hash |-> "H1",
                     size |-> f[i].size, source |-> 0, mtime |-> 1,
                     muser |-> "u", cluster |-> f[i].cluster] : i \in with}
            vs2 == IF g = None THEN {}
                   ELSE {[serial |-> Cardinality(with) + 1, node |-> g.node,
                          hash |-> "H1", size |-> 1, source |-> 0,
                          mtime |-> 2, muser |-> "u", cluster |-> g.cluster]}
        IN  /\ f[0] \in {None, [cluster |-> 1, size |-> 1]}
            /\ nodes = ns
            /\ versions = vs1 \cup vs2
            /\ statistics = StatisticsOf(ns, vs1 \cup vs2)
            /\ now = 2
            /\ calls = 0
            /\ seen = {}
            /\ proc = [p \in Procs |-> Idle]
            /\ attributes = {}
            /\ policy = {}
            /\ listed = None

NextLatest ==
    \E node \in 0..4, before \in {2, inf}, except_cluster \in Clusters :
        statistics_latest_call(node, before, except_cluster)

SpecLatest == InitLatest /\ [][NextLatest]_vars

(* ------------- a listing, scan by scan, beside the writers ------------- *)
\* latest_version_list with a delimiter run one fetchone at a time while
\* other callers create and remove nodes and versions. listed is the state of
\* the call: the arguments, the start bound of the query last executed, the
\* rows of its result not fetched yet (the result of a query is fixed when it
\* is executed), the matches, prefixes and count so far, the paths fetched,
\* the number of queries executed, and the number of calls the writers had
\* made when the listing began.
ScanPaths == {<<1, Slash>>, <<1, Slash, 1>>, <<1, Slash, 3>>, <<3>>,
              <<3, Slash, 1>>}

InitScan ==
    /\ nodes = {[node |-> ROOTNODE, parent |-> ROOTNODE, path |-> <<>>]}
    /\ versions = {}
    /\ statistics = {}
    /\ now = 1
    /\ calls = 0
    /\ seen = {}
    /\ proc = [p \in Procs |-> Idle]
    /\ attributes = {}
    /\ policy = {}
    /\ listed = None

\* execute(q, args) with args = [inf, 0, ROOTNODE, start, nextling] and no
\* filter: the rows `select distinct n.path, v.serial from versions v, nodes n
\* where ...' in the order of the paths
scan_execute(prefix, start) ==
    OrderByPath(
        {<<n.path, v.serial>> : <<n, v>> \in
            {x \in nodes \X versions :
                /\ x[2].mtime < inf
                /\ \A w \in versions :
                      (w.node = x[2].node /\ w.mtime < inf)
                         => w.serial <= x[2].serial
                /\ x[2].cluster # 0
                /\ x[2].node \in ParentIs(nodes, ROOTNODE)
                /\ x[1].node = x[2].node
                /\ StrLess(start, x[1].path)
                /\ StrLess(x[1].path, strnextling(prefix))}})

\* the start of a new query taken from the path fetched
scan_reseed_at_path(path, pf) == path

\* the start of a new query after the common prefix pf of path (node.py 809)
scan_reseed(path, pf) == strnextling(pf)

\* the call, with the default start '', up to its first execute
scan_begin(prefix, delimiter, limit) ==
    /\ listed = None
    /\ LET start == strprevling(prefix)
       IN  listed' = [pc |-> "fetch", prefix |-> prefix,
                      delimiter |-> delimiter, limit |-> limit,
                      start |-> start, rows |-> scan_execute(prefix, start),
                      matches |-> <<>>, prefixes |-> <<>>, count |-> 0,
                      fetched |-> {}, scans |-> 1, calls0 |-> calls]
    /\ UNCHANGED <<nodes, versions, statistics, now, calls, seen, proc,
                   attributes, policy>>

\* one turn of the loop: fetchone, and what follows it up to the next fetchone
scan_fetch ==
    /\ listed # None
    /\ listed.pc = "fetch"
    /\ IF listed.rows = <<>>
       THEN listed' = [listed EXCEPT !.pc = "done"]
       ELSE LET props == Head(listed.rows)
                path == props[1]
                dz == Len(listed.delimiter)
                idx == Find(path, listed.delimiter, Len(listed.prefix))
                pf == SubSeq(path, 1, idx + dz - 1)
                got == [listed EXCEPT !.rows = Tail(@),
                                      !.fetched = @ \cup {path}]
            IN
            IF idx = 0
            THEN listed' = [got EXCEPT
                               !.matches = Append(@, props),
                               !.count = @ + 1,
                               !.pc = IF listed.count + 1 >= listed.limit
                                      THEN "done" ELSE "fetch"]
            ELSE IF idx + dz - 1 = Len(path)
            THEN listed' = [got EXCEPT !.matches = Append(@, props),
                                       !.count = @ + 1]
            ELSE IF listed.count >= listed.limit
            THEN listed' = [got EXCEPT !.prefixes = Append(@, pf),
                                       !.pc = "done"]
            ELSE listed' = [got EXCEPT
                               !.prefixes = Append(@, pf),
                               !.start = scan_reseed(path, pf),
                               !.rows = scan_execute(listed.prefix,
                                                     scan_reseed(path, pf)),
                               !.scans = @ + 1]
    /\ UNCHANGED <<nodes, versions, statistics, now, calls, seen, proc,
                   attributes, policy>>

NextScan ==
    \/ \E path \in ScanPaths : node_create(ROOTNODE, path)
    \/ \E node \in 1..MaxNode : node_remove(node)
    \/ \E node \in 1..MaxNode : version_create(node, "H1", 1, 0, "u", 1)
    \/ \E serial \in 1..MaxSerial : version_remove(serial)
    \/ \E limit \in {1, MaxPaths} : scan_begin(<<>>, <<Slash>>, limit)
    \/ scan_fetch

\* the listing goes on whatever the writers do
SpecScan == InitScan /\ [][NextScan]_vars /\ WF_vars(scan_fetch)

(* ------------------------- reading the tables -------------------------- *)
\* population and size of the row (node, cluster), 0 when no row exists
Population(st, node, cluster) ==
    LET r == statistics_get(st, node, cluster) IN
    IF r = None THEN 0 ELSE r.population

Size(st, node, cluster) ==
    LET r == statistics_get(st, node, cluster) IN
    IF r = None THEN 0 ELSE r.size

\* the nodes whose parent is node, the root's self-reference excluded
Children(ns, node) ==
    {n.node : n \in {m \in ns : m.parent = node /\ m.node # node}}

\* d is node or lies below it: the parent chain of d passes through node
RECURSIVE IsBelow(_, _, _, _)
IsBelow(ns, d, node, fuel) ==
    \/ d = node
    \/ /\ fuel > 0
       /\ d \in NodeSet(ns)
       /\ node_get_properties(ns, d).parent # d
       /\ IsBelow(ns, node_get_properties(ns, d).parent, node, fuel - 1)

\* node and every node below it
Subtree(ns, node) ==
    {d \in NodeSet(ns) : IsBelow(ns, d, node, Cardinality(ns))}

StrictAncestors(ns, node) ==
    {a \in NodeSet(ns) : a # node /\ node \in Subtree(ns, a)}

(* ------------- concurrent callers, statement by statement -------------- *)
\* Each caller runs one operation of node.py inside a transaction of the
\* engine: every execute() is one step, the statements of the two callers
\* interleave freely, a caller reads the committed tables overlaid with its
\* own uncommitted writes (read committed), and its writes reach the tables
\* together when it commits.  The tree is fixed: root -> a -> {b, c}, with one
\* committed version at b.
InitTx ==
    /\ nodes = {[node |-> ROOTNODE, parent |-> ROOTNODE, path |-> ""],
                [node |-> 1, parent |-> ROOTNODE, path |-> "a"],
                [node |-> 2, parent |-> 1, path |-> "a/b"],
                [node |-> 3, parent |-> 1, path |-> "a/c"]}
    /\ versions = {[serial |-> 1, node |-> 2, hash |-> "H1", size |-> 1,
                    source |-> 0, mtime |-> 1, muser |-> "u", cluster |-> 0]}
    /\ statistics = {[node |-> 1, cluster |-> 0, population |-> 1,
                      size |-> 1, mtime |-> 1],
                     [node |-> ROOTNODE, cluster |-> 0, population |-> 0,
                      size |-> 1, mtime |-> 1]}
    /\ now = 1
    /\ calls = 0
    /\ seen = {}
    /\ proc = [p \in Procs |-> Idle]
    /\ attributes = {}
    /\ policy = {}
    /\ listed = None

\* the versions table as caller p reads it
ViewVersions(p) ==
    LET q == proc[p]
        kept == {v \in versions : v.serial \notin q.del}
        updated(v) == {u \in q.upd : u.serial = v.serial}
    IN  {IF updated(v) = {} THEN v
         ELSE [v EXCEPT !.cluster = (CHOOSE u \in updated(v) : TRUE).cluster]
         : v \in kept} \cup q.ins

\* `insert or replace' of rows into a statistics table
insert_or_replace(st, rows) ==
    {s \in st : ~\E w \in rows : w.node = s.node /\ w.cluster = s.cluster}
    \cup rows

\* the statistics table as caller p reads it
ViewStatistics(p) == insert_or_replace(statistics, proc[p].st)

\* the serials handed out so far, committed or not
SerialsInUse ==
    {v.serial : v \in versions}
    \cup UNION {{v.serial : v \in proc[p].ins} : p \in Procs}

\* caller record q once its walk stands at q.cur: the loop goes on, or the
\* second walk of a recluster starts, or the statement after the walk is next
Walked(q) ==
    IF q.cur # ROOTNODE THEN [q EXCEPT !.pc = "select"]
    ELSE IF q.more
    THEN [q EXCEPT !.pc = "select", !.cur = q.node, !.wcluster = q.newcluster,
                   !.population = 1, !.delta = q.size, !.more = FALSE]
    ELSE [q EXCEPT !.pc = CASE q.op = "create" -> "commit"
                            [] q.op = "remove" -> "delete"
                            [] OTHER -> "update"]

\* version_create, `mtime = time()': the clock is read before the insert
tx_create_time(p, node, size, cluster) ==
    /\ proc[p].pc = "idle"
    /\ proc' = [proc EXCEPT ![p] =
                   [Idle EXCEPT !.pc = "insert", !.op = "create",
                                !.node = node, !.size = size,
                                !.cluster = cluster, !.mtime = now]]
    /\ UNCHANGED <<nodes, versions, statistics, now, calls, seen, attributes,
                     policy, listed>>

\* version_create, the insert into versions; the ancestors walk starts
tx_create_insert(p) ==
    LET q == proc[p]
        serial == lastrowid(SerialsInUse)
        row == [serial |-> serial, node |-> q.node, hash |-> "H1",
                size |-> q.size, source |-> 0, mtime |-> q.mtime,
                muser |-> "u", cluster |-> q.cluster]
    IN  /\ q.pc = "insert"
        /\ proc' = [proc EXCEPT ![p] =
                       Walked([q EXCEPT !.serial = serial, !.ins = {row},
                                        !.cur = q.node, !.population = 1,
                                        !.delta = q.size,
                                        !.wcluster = q.cluster])]
        /\ UNCHANGED <<nodes, versions, statistics, now, calls, seen, attributes,
                     policy, listed>>

\* statistics_update of the parent of the walk's node, its select
tx_statistics_select(p) ==
    LET q == proc[p]
        parent == node_get_properties(nodes, q.cur).parent
        r == statistics_get(ViewStatistics(p), parent, q.wcluster)
    IN  /\ q.pc = "select"
        /\ proc' = [proc EXCEPT ![p] =
                       [q EXCEPT !.pc = "replace",
                                 !.pre = IF r = None THEN <<0, 0>>
                                         ELSE <<r.population, r.size>>]]
        /\ UNCHANGED <<nodes, versions, statistics, now, calls, seen, attributes,
                     policy, listed>>

\* statistics_update of the parent, its insert or replace; the walk moves up
tx_statistics_replace(p) ==
    LET q == proc[p]
        parent == node_get_properties(nodes, q.cur).parent
        row == [node |-> parent, cluster |-> q.wcluster,
                population |-> q.population + q.pre[1],
                size |-> q.delta + q.pre[2], mtime |-> q.mtime]
    IN  /\ q.pc = "replace"
        /\ proc' = [proc EXCEPT ![p] =
                       Walked([q EXCEPT !.st = insert_or_replace(q.st, {row}),
                                        !.cur = parent, !.population = 0])]
        /\ UNCHANGED <<nodes, versions, statistics, now, calls, seen, attributes,
                     policy, listed>>

\* version_remove up to its walk: the version is read, then the clock
tx_remove_begin(p, serial) ==
    LET props == version_get_properties(ViewVersions(p), serial) IN
    /\ proc[p].pc = "idle"
    /\ props # None
    /\ proc' = [proc EXCEPT ![p] =
                   Walked([Idle EXCEPT !.op = "remove", !.serial = serial,
                                       !.node = props.node,
                                       !.size = props.size,
                                       !.cluster = props.cluster,
                                       !.mtime = now, !.cur = props.node,
                                       !.population = -1,
                                       !.delta = -props.size,
                                       !.wcluster = props.cluster])]
    /\ UNCHANGED <<nodes, versions, statistics, now, calls, seen, attributes,
                     policy, listed>>

\* version_remove, the delete from versions
tx_remove_delete(p) ==
    LET q == proc[p] IN
    /\ q.pc = "delete"
    /\ proc' = [proc EXCEPT ![p] =
                   [q EXCEPT !.pc = "commit", !.del = {q.serial}]]
    /\ UNCHANGED <<nodes, versions, statistics, now, calls, seen, attributes,
                     policy, listed>>

\* version_recluster up to its first walk, in the old cluster
tx_recluster_begin(p, serial, cluster) ==
    LET props == version_get_properties(ViewVersions(p), serial) IN
    /\ proc[p].pc = "idle"
    /\ props # None
    /\ cluster # props.cluster
    /\ proc' = [proc EXCEPT ![p] =
                   Walked([Idle EXCEPT !.op = "recluster", !.serial = serial,
                                       !.node = props.node,
                                       !.size = props.size,
                                       !.cluster = props.cluster,
                                       !.newcluster = cluster,
                                       !.mtime = now, !.cur = props.node,
                                       !.population = -1,
                                       !.delta = -props.size,
                                       !.wcluster = props.cluster,
                                       !.more = TRUE])]
    /\ UNCHANGED <<nodes, versions, statistics, now, calls, seen, attributes,
                     policy, listed>>

\* version_recluster, the update of versions.cluster
tx_recluster_update(p) ==
    LET q == proc[p] IN
    /\ q.pc = "update"
    /\ proc' = [proc EXCEPT ![p] =
                   [q EXCEPT !.pc = "commit",
                             !.upd = {[serial |-> q.serial,
                                       cluster |-> q.newcluster]}]]
    /\ UNCHANGED <<nodes, versions, statistics, now, calls, seen, attributes,
                     policy, listed>>

\* the caller's transaction commits: its writes reach the tables together
tx_commit(p) ==
    /\ proc[p].pc = "commit"
    /\ versions' = ViewVersions(p)
    /\ statistics' = ViewStatistics(p)
    /\ proc' = [proc EXCEPT ![p] = [Idle EXCEPT !.pc = "done"]]
    /\ UNCHANGED <<nodes, now, calls, seen, attributes, policy,
                 listed>>

NextTx ==
    \/ Tick
    \/ \E p \in Procs, node \in TxNodes, size \in Sizes, cluster \in Clusters :
           tx_create_time(p, node, size, cluster)
    \/ \E p \in Procs : tx_create_insert(p)
    \/ \E p \in Procs : tx_statistics_select(p)
    \/ \E p \in Procs : tx_statistics_replace(p)
    \/ \E p \in Procs, serial \in Serials : tx_remove_begin(p, serial)
    \/ \E p \in Procs : tx_remove_delete(p)
    \/ \E p \in Procs, serial \in Serials, cluster \in Clusters :
           tx_recluster_begin(p, serial, cluster)
    \/ \E p \in Procs : tx_recluster_update(p)
    \/ \E p \in Procs : tx_commit(p)

SpecTx == InitTx /\ [][NextTx]_vars

(* ------------------------------ C1 ------------------------------------- *)
\* C1: in every state, for every node N and cluster c, the size of the
\* statistics row (N, c) (0 without a row) is the sum of the sizes of the
\* versions of cluster c located at N or at a descendant of N.
C1_SizeIsSubtreeSum ==
    \A n \in NodeSet(nodes), c \in Clusters :
        Size(statistics, n, c) =
            SumSize({v \in versions :
                        v.cluster = c /\ v.node \in Subtree(nodes, n)})

(* ------------------------------ C2 ------------------------------------- *)
\* C2: in every state, for every node N and cluster c, the population of the
\* statistics row (N, c) (0 without a row) is the number of versions of
\* cluster c located at the direct children of N.
C2_PopulationIsChildVersions ==
    \A n \in NodeSet(nodes), c \in Clusters :
        Population(statistics, n, c) =
            Cardinality({v \in versions :
                            v.cluster = c /\ v.node \in Children(nodes, n)})

(* ------------------------------ C3 ------------------------------------- *)
\* the versions of node in cluster with mtime < before
InCluster(node, before, cluster) ==
    {v \in versions : v.node = node /\ v.cluster = cluster /\ v.mtime < before}

\* the versions of node with mtime < before, of any cluster
AsOf(node, before) ==
    {v \in versions : v.node = node /\ v.mtime < before}

\* C3 as claimed: lookupCurrentVersion(node, before, cluster) returns the
\* version of maximum serial among those of node in cluster with
\* mtime < before, and NotFound only when there is none.
C3_LookupMaxInCluster ==
    \A node \in NodeIds, before \in Befores, cluster \in Clusters :
        LET r == version_lookup(versions, node, before, cluster)
            S == InCluster(node, before, cluster)
        IN  /\ (S = {}) <=> (r = None)
            /\ S # {} => /\ r \in S
                         /\ \A v \in S : v.serial <= r.serial

\* C3 as amended: lookupCurrentVersion returns the version of maximum serial
\* among ALL versions of node with mtime < before when that version is in
\* cluster, and NotFound otherwise (no such version, or the newest one as of
\* before is in another cluster, whatever older versions cluster holds).
C3_LookupNewestIfInCluster ==
    \A node \in NodeIds, before \in Befores, cluster \in Clusters :
        LET r == version_lookup(versions, node, before, cluster)
            newest == {v \in AsOf(node, before) :
                          \A w \in AsOf(node, before) : w.serial <= v.serial}
        IN  /\ r # None => r \in newest /\ r.cluster = cluster
            /\ r = None => \A v \in newest : v.cluster # cluster

\* the case of C3: the newest version of a node is in another cluster than an
\* older one, and the lookup in the older one's cluster finds nothing
C3_Witness ==
    \E v \in versions, w \in versions :
        /\ v.node = w.node
        /\ v.serial < w.serial
        /\ v.cluster # w.cluster
        /\ version_lookup(versions, v.node, inf, v.cluster) = None
        /\ version_lookup(versions, v.node, inf, w.cluster) = w

(* ------------------------------ C4 ------------------------------------- *)
\* no version that the first call read has been deleted since: each is still
\* in the table, in whatever cluster
NoneDeleted ==
    \A v \in seen : \E w \in versions : [w EXCEPT !.cluster = v.cluster] = v

\* C4 as claimed: for a node, a cluster and T1 < T2, if the first call
\* lookupCurrentVersion(node, T1, cluster) returned serial s1, no version was
\* deleted since and s1 itself was not reclustered, then the later call
\* lookupCurrentVersion(node, T2, cluster) returns a version of serial
\* s2 >= s1, never NotFound.
C4_LaterLookupFindsNoLess ==
    \A node \in NodeIds, cluster \in Clusters, T1 \in Befores, T2 \in Befores :
        LET r1 == version_lookup(seen, node, T1, cluster)
            r2 == version_lookup(versions, node, T2, cluster)
        IN  (T1 < T2 /\ r1 # None /\ NoneDeleted /\ r1 \in versions)
            => (r2 # None /\ r2.serial >= r1.serial)

\* C4 as amended: under the same conditions the later call never returns a
\* smaller serial, but it may return NotFound: it does whenever the newest
\* version of the node with mtime < T2 is in another cluster.
C4_LaterLookupNoSmaller ==
    \A node \in NodeIds, cluster \in Clusters, T1 \in Befores, T2 \in Befores :
        LET r1 == version_lookup(seen, node, T1, cluster)
            r2 == version_lookup(versions, node, T2, cluster)
        IN  (T1 < T2 /\ r1 # None /\ NoneDeleted /\ r1 \in versions)
            => /\ r2 # None => r2.serial >= r1.serial
               /\ r2 = None => \E v \in AsOf(node, T2) :
                                  v.serial > r1.serial /\ v.cluster # cluster

\* the case of C4: a first call found a version, nothing was deleted, a newer
\* version was created in the same cluster and the later call finds it
C4_Witness ==
    \E node \in NodeIds, cluster \in Clusters, T1 \in Befores, T2 \in Befores :
        LET r1 == version_lookup(seen, node, T1, cluster)
            r2 == version_lookup(versions, node, T2, cluster)
        IN  /\ T1 < T2 /\ r1 # None /\ NoneDeleted /\ r1 \in versions
            /\ r2 # None /\ r2.serial > r1.serial
            /\ r2 \notin seen

(* ------------------------------ C5 ------------------------------------- *)
Parent(ns, node) == node_get_properties(ns, node).parent

\* C5: createVersion(N, size s, cluster c) adds s to the size of the row
\* (A, c) of every strict ancestor A of N up to the root, adds 1 to the
\* population of the row (parent(N), c) only, and leaves every row of
\* another cluster or of a node that is no strict ancestor of N as it was.
C5_CreateRollup ==
    [][\A new \in versions' \ versions :
          version_create(new.node, new.hash, new.size, new.source, new.muser,
                         new.cluster)
          => \A n \in NodeIds, c \in Clusters :
                IF c = new.cluster /\ n \in StrictAncestors(nodes, new.node)
                THEN /\ Size(statistics', n, c) =
                            Size(statistics, n, c) + new.size
                     /\ Population(statistics', n, c) =
                            Population(statistics, n, c)
                            + (IF n = Parent(nodes, new.node) THEN 1 ELSE 0)
                ELSE statistics_get(statistics', n, c) =
                         statistics_get(statistics, n, c)]_vars

\* the case of C5: one version two levels below the root, counted in the
\* size of its parent and of the root and in the population of its parent
C5_Witness ==
    \E v \in versions :
        /\ versions = {v}
        /\ v.node # 0
        /\ Parent(nodes, v.node) # 0
        /\ Parent(nodes, Parent(nodes, v.node)) = 0
        /\ Size(statistics, Parent(nodes, v.node), v.cluster) = v.size
        /\ Size(statistics, 0, v.cluster) = v.size
        /\ Population(statistics, Parent(nodes, v.node), v.cluster) = 1
        /\ Population(statistics, 0, v.cluster) = 0

(* ------------------------------ C6 ------------------------------------- *)
\* C6 as claimed: creating, removing or reclustering a version located at
\* node N changes N's own statistics row of the affected cluster by the
\* version's contribution (population by 1, size by the version's size).
C6_OwnRowUpdated ==
    [][/\ \A new \in versions' \ versions :
             version_create(new.node, new.hash, new.size, new.source,
                            new.muser, new.cluster)
             => /\ Population(statistics', new.node, new.cluster) =
                       Population(statistics, new.node, new.cluster) + 1
                /\ Size(statistics', new.node, new.cluster) =
                       Size(statistics, new.node, new.cluster) + new.size
       /\ \A v \in versions \ versions' :
             version_remove(v.serial)
             => /\ Population(statistics', v.node, v.cluster) =
                       Population(statistics, v.node, v.cluster) - 1
                /\ Size(statistics', v.node, v.cluster) =
                       Size(statistics, v.node, v.cluster) - v.size
       /\ \A v \in versions \ versions' : \A cluster \in Clusters \ {v.cluster} :
             version_recluster(v.serial, cluster)
             => /\ Population(statistics', v.node, cluster) =
                       Population(statistics, v.node, cluster) + 1
                /\ Size(statistics', v.node, cluster) =
                       Size(statistics, v.node, cluster) + v.size
                /\ Population(statistics', v.node, v.cluster) =
                       Population(statistics, v.node, v.cluster) - 1
                /\ Size(statistics', v.node, v.cluster) =
                       Size(statistics, v.node, v.cluster) - v.size]_vars

\* the rows of node are left as they are
OwnRowsKept(node) ==
    \A c \in Clusters :
        statistics_get(statistics', node, c) =
            statistics_get(statistics, node, c)

\* the row (parent(node), cluster) changes by dp in population, ds in size
ParentRowMoves(node, cluster, dp, ds) ==
    node # 0 =>
        /\ Population(statistics', Parent(nodes, node), cluster) =
               Population(statistics, Parent(nodes, node), cluster) + dp
        /\ Size(statistics', Parent(nodes, node), cluster) =
               Size(statistics, Parent(nodes, node), cluster) + ds

\* C6 as amended: creating, removing or reclustering a version located at
\* node N leaves every statistics row of N itself unchanged; the version's
\* contribution is applied from parent(N) upwards (population by 1 and size
\* by the version's size at parent(N)), and nothing when N is the root.
C6_OwnRowKept ==
    [][/\ \A new \in versions' \ versions :
             version_create(new.node, new.hash, new.size, new.source,
                            new.muser, new.cluster)
             => /\ OwnRowsKept(new.node)
                /\ ParentRowMoves(new.node, new.cluster, 1, new.size)
       /\ \A v \in versions \ versions' :
             version_remove(v.serial)
             => /\ OwnRowsKept(v.node)
                /\ ParentRowMoves(v.node, v.cluster, -1, -v.size)
       /\ \A v \in versions \ versions' : \A cluster \in Clusters \ {v.cluster} :
             version_recluster(v.serial, cluster)
             => /\ OwnRowsKept(v.node)
                /\ ParentRowMoves(v.node, v.cluster, -1, -v.size)
                /\ ParentRowMoves(v.node, cluster, 1, v.size)]_vars

\* the case of C6: a version at a node below the root whose own row does not
\* exist while its parent's row counts it
C6_Witness ==
    \E v \in versions :
        /\ v.node # 0
        /\ statistics_get(statistics, v.node, v.cluster) = None
        /\ Population(statistics, Parent(nodes, v.node), v.cluster) = 1
        /\ Size(statistics, Parent(nodes, v.node), v.cluster) = v.size

(* --------------------------- C7, C8, C9 -------------------------------- *)
\* the statistics rows st account for exactly the versions vs: the size of
\* every row sums the versions below its node, its population counts those
\* at the children of its node
Accounted(vs, st) ==
    \A n \in NodeSet(nodes), c \in Clusters :
        /\ Size(st, n, c) =
               SumSize({v \in vs : /\ v.cluster = c
                                   /\ v.node \in Subtree(nodes, n) \ {n}})
        /\ Population(st, n, c) =
               Cardinality({v \in vs : /\ v.cluster = c
                                       /\ v.node \in Children(nodes, n)})

\* C7: whatever the callers are doing, the committed tables (the state another
\* process observes) never hold a version row change without the complete
\* statistics delta of every ancestor: each version is counted once, in its
\* own cluster, in the rows of all its ancestors.
C7_ObservedStateAccounted == Accounted(versions, statistics)

\* C8: once both callers have completed their operation, no statistics
\* update is lost: every row holds its initial value plus the deltas of both
\* operations, that is, the rows account for the versions then in the table.
C8_NoLostUpdate ==
    (\A p \in Procs : proc[p].pc = "done") => Accounted(versions, statistics)

\* C9: among the committed versions of one node, serial order agrees with
\* mtime order: v1.serial < v2.serial implies v1.mtime <= v2.mtime.
C9_SerialOrderIsMtimeOrder ==
    \A v1 \in versions, v2 \in versions :
        (v1.node = v2.node /\ v1.serial < v2.serial) => v1.mtime <= v2.mtime

(* ------------------------------ C11 ------------------------------------ *)
\* the versions at node
VersionsAt(node) == {v \in versions : v.node = node}

\* node exists, has no child, and has exactly three versions, all of them in
\* cluster and older than before
ThreeOldVersions(node, before, cluster) ==
    /\ node \in NodeSet(nodes)
    /\ node_count_children(node) = 0
    /\ Cardinality(VersionsAt(node)) = 3
    /\ \A v \in VersionsAt(node) : v.cluster = cluster /\ v.mtime < before

\* what the purge of such a node does, leaving out the parent's population:
\* the three versions go, their three hashes are returned, the node goes,
\* every ancestor's size drops by their summed size and no other ancestor's
\* population moves
PurgedAll(node, before, cluster) ==
    /\ versions' = versions \ VersionsAt(node)
    /\ node_purge_return(node, before, cluster) = HashBag(VersionsAt(node))
    /\ node \notin NodeSet(nodes')
    /\ \A a \in StrictAncestors(nodes, node) :
          /\ Size(statistics', a, cluster) =
                 Size(statistics, a, cluster) - SumSize(VersionsAt(node))
          /\ a # Parent(nodes, node) =>
                 Population(statistics', a, cluster) =
                     Population(statistics, a, cluster)

\* C11 as claimed: purgeNodeVersions on a childless node whose 3 versions are
\* all in the cluster and older than T removes the 3 versions, returns their
\* 3 hashes, deletes the node, decrements every ancestor's size by the summed
\* size and decrements the population by 1 at the immediate parent only.
C11_PurgeParentPopulationByOne ==
    [][\A node \in {n \in NodeIds : Cardinality(VersionsAt(n)) = 3} :
       \A before \in Befores, cluster \in Clusters :
          (ThreeOldVersions(node, before, cluster)
           /\ node_purge(node, before, cluster))
          => /\ PurgedAll(node, before, cluster)
             /\ node # ROOTNODE =>
                    Population(statistics', Parent(nodes, node), cluster) =
                        Population(statistics, Parent(nodes, node), cluster)
                        - 1]_vars

\* C11 as amended: the same, but the population of the immediate parent is
\* decremented by 3, the number of versions removed.
C11_PurgeParentPopulationByThree ==
    [][\A node \in {n \in NodeIds : Cardinality(VersionsAt(n)) = 3} :
       \A before \in Befores, cluster \in Clusters :
          (ThreeOldVersions(node, before, cluster)
           /\ node_purge(node, before, cluster))
          => /\ PurgedAll(node, before, cluster)
             /\ node # ROOTNODE =>
                    Population(statistics', Parent(nodes, node), cluster) =
                        Population(statistics, Parent(nodes, node), cluster)
                        - 3]_vars

\* the case of C11: the node a/b, which had three versions summing to the
\* size of its ancestors' rows, has been purged away with them
C11_Witness ==
    /\ calls = 1
    /\ NodeSet(nodes) = {ROOTNODE, 1}
    /\ versions = {}
    /\ Population(statistics, 1, 0) = 0
    /\ Size(statistics, 1, 0) = 0
    /\ Size(statistics, ROOTNODE, 0) = 0

(* ------------------------------ C12 ------------------------------------ *)
\* C12: purgeChildrenVersions(parent, T, c) deletes exactly the versions of
\* cluster c with mtime <= T (T included) located at the nodes whose parent is
\* parent, returns exactly their hashes, and leaves every other version (other
\* cluster, later mtime, node that is not a child of parent) in place.
C12_PurgeChildrenExactly ==
    [][\A parent \in NodeIds, before \in Befores, cluster \in Clusters :
          node_purge_children(parent, before, cluster)
          => LET sel == {v \in versions :
                            /\ v.cluster = cluster
                            /\ v.mtime <= before
                            /\ v.node \in NodeSet(nodes)
                            /\ Parent(nodes, v.node) = parent}
             IN  /\ versions' = versions \ sel
                 /\ node_purge_children_return(parent, before, cluster) =
                        HashBag(sel)]_vars

(* --------------------------- C13, C14 ---------------------------------- *)
StartsWith(path, prefix) ==
    /\ Len(path) >= Len(prefix)
    /\ SubSeq(path, 1, Len(prefix)) = prefix

\* (path, serial) of the children of the root with a current version outside
\* cluster 0 whose path starts with prefix
Current(prefix) ==
    {<<n.path, v.serial>> : <<n, v>> \in
        {x \in nodes \X versions :
            /\ x[1].node # ROOTNODE
            /\ x[1].parent = ROOTNODE
            /\ x[2].node = x[1].node
            /\ x[2].cluster # 0
            /\ \A w \in versions : w.node = x[2].node => w.serial <= x[2].serial
            /\ StartsWith(x[1].path, prefix)}}

\* the elements of a sequence
Range(seq) == {seq[i] : i \in 1..Len(seq)}

\* C13: with a delimiter, when fewer than limit matches exist, the matches are
\* exactly the current child paths with the prefix that have no delimiter
\* after the prefix, or only one that ends the path, and the common prefixes
\* are exactly the distinct path[:idx+len(delimiter)] of the paths whose first
\* delimiter after the prefix is before the path's end.
C13_DelimiterListing ==
    (/\ listed # None /\ listed.delimiter # <<>> /\ listed.filterq = <<>>
     /\ listed.start = <<>>)
    => LET pfz == Len(listed.prefix)
           dz == Len(listed.delimiter)
           idx(path) == Find(path, listed.delimiter, pfz)
           flat == {r \in Current(listed.prefix) :
                       \/ idx(r[1]) = 0
                       \/ idx(r[1]) + dz - 1 = Len(r[1])}
           dirs == {SubSeq(r[1], 1, idx(r[1]) + dz - 1) :
                       r \in {x \in Current(listed.prefix) :
                                 /\ idx(x[1]) # 0
                                 /\ idx(x[1]) + dz - 1 < Len(x[1])}}
       IN  Cardinality(flat) < listed.limit
           => /\ Range(listed.return.matches) = flat
              /\ Len(listed.return.matches) = Cardinality(flat)
              /\ Range(listed.return.prefixes) = dirs
              /\ Len(listed.return.prefixes) = Cardinality(dirs)

\* C14: for every limit >= 1, with or without a delimiter, a listing returns
\* at most limit matches.
C14_MatchesWithinLimit ==
    (listed # None /\ listed.filterq = <<>>)
    => Len(listed.return.matches) <= listed.limit

(* --------------------------- C15, C16 ---------------------------------- *)
\* the version of serial has an attribute key whose value satisfies op value
HasAttribute(serial, key, op, value) ==
    \E a \in attributes :
        a.serial = serial /\ a.key = key /\ Compare(a.value, op, value)

HasKey(serial, key) == \E a \in attributes : a.serial = serial /\ a.key = key

\* the listing returned, and its matches are the versions that satisfy Accept
Returns(Accept(_)) ==
    /\ listed.return # OperationalError
    /\ \A r \in Current(<<>>) :
          (r \in Range(listed.return.matches)) <=> Accept(r[2])

\* C15: with the filter "color==red,!archived" a listing returns a version if
\* and only if it has an attribute color of value red and no attribute
\* archived.
C15_ColorRedNotArchived ==
    LET red == [neg |-> "", key |-> "color", op |-> "==", value |-> "red"]
        notarchived == [neg |-> "!", key |-> "archived", op |-> "",
                        value |-> ""]
        Accept(serial) == /\ HasAttribute(serial, "color", "==", "red")
                          /\ ~HasKey(serial, "archived")
    IN  (listed # None /\ listed.filterq = <<red, notarchived>>)
        => Returns(Accept)

\* C16: with a filter of a bare key k1 and a comparison on another key k2, a
\* listing returns the versions that have k1 and have k2 satisfying the
\* comparison, and no other; with a filter of two comparisons it returns the
\* versions that satisfy at least one of them.
C16_BucketsCombine ==
    listed # None =>
    \A t1 \in Terms \ {NoMatch}, t2 \in Terms \ {NoMatch} :
        LET AcceptBoth(serial) ==
                /\ HasKey(serial, t1.key)
                /\ HasAttribute(serial, t2.key, t2.op, t2.value)
            AcceptAny(serial) ==
                \/ HasAttribute(serial, t1.key, t1.op, t1.value)
                \/ HasAttribute(serial, t2.key, t2.op, t2.value)
        IN  /\ (/\ listed.filterq = <<t1, t2>>
                /\ t1.neg = "" /\ t1.value = ""
                /\ t2.op # "" /\ t2.key # t1.key)
               => Returns(AcceptBoth)
            /\ (/\ listed.filterq = <<t1, t2>>
                /\ t1.op # "" /\ t2.op # "")
               => Returns(AcceptAny)

(* ------------------------------ C17 ------------------------------------ *)
\* C17: removeNode on a node that has at least one child returns false and
\* leaves the tables unchanged.
C17_RemoveWithChildrenRefused ==
    [][\A node \in NodeIds :
          (Children(nodes, node) # {} /\ node_remove(node))
          => /\ node_remove_return(node) = FALSE
             /\ UNCHANGED <<nodes, versions, statistics>>]_vars

\* the case of C17: a node with a child and a version below it, which a
\* removal of the node would take away
C17_Witness ==
    \E n \in NodeSet(nodes) \ {ROOTNODE} :
        /\ Children(nodes, n) # {}
        /\ \E v \in versions : v.node \in Children(nodes, n)
        /\ ~node_remove_return(n)

(* ------------------------------ C18 ------------------------------------ *)
\* C18: node_remove returns false when the node does not exist, as it does
\* when the node has children, and changes no state in either case.
C18_RemoveMissingRefused ==
    [][\A node \in NodeIds :
          (node_remove(node)
           /\ (node \notin NodeSet(nodes) \/ Children(nodes, node) # {}))
          => /\ node_remove_return(node) = FALSE
             /\ UNCHANGED <<nodes, versions, statistics>>]_vars

(* ------------------------------ C19 ------------------------------------ *)
\* C19: createNode(parent, path) leaves the node set unchanged whenever path
\* is the path of an existing node or parent is not an existing node;
\* consequently, in every reachable state, paths are unique and the parent of
\* every node exists.
C19_CreateNodeRejected ==
    /\ [][\A parent \in NodeIds, path \in Paths :
            (node_create(parent, path)
             /\ (path \in {n.path : n \in nodes}
                 \/ parent \notin NodeSet(nodes)))
            => nodes' = nodes]_vars
    /\ [](\A n \in nodes :
            /\ n.parent \in NodeSet(nodes)
            /\ \A m \in nodes : m.path = n.path => m = n)

(* ------------------------------ C20 ------------------------------------ *)
\* C20: removeVersion(serial) on a serial that does not exist returns NotFound
\* and changes no version or statistics row; on an existing serial it deletes
\* exactly that version and returns its hash.
C20_RemoveVersionExactly ==
    [][\A serial \in Serials :
          LET r == {v \in versions : v.serial = serial} IN
          \/ IF r = {}
             THEN /\ UNCHANGED <<versions, statistics>>
                  /\ version_remove_return(serial) = None
             ELSE /\ versions' = versions \ r
                  /\ Cardinality(r) = 1
                  /\ \A v \in r : version_remove_return(serial) = v.hash
          \/ ~version_remove(serial)]_vars

\* the case of C20: a removal took the later of two versions of a node: the
\* earlier one is still there, counted once at the parent, in rows stamped
\* after its creation
C20_Witness ==
    \E v \in versions :
        /\ v.serial = 1
        /\ v.node # ROOTNODE
        /\ Cardinality(versions) = 1
        /\ Population(statistics, Parent(nodes, v.node), v.cluster) = 1
        /\ \E s \in statistics : s.mtime > v.mtime

C22_ReclusterIdempotent ==
    [][/\ \A v \in versions' : \A cluster \in Clusters \ {v.cluster} :
             ~version_recluster(v.serial, cluster)
       /\ \/ UNCHANGED <<versions, statistics>>
          \/ \A serial \in Serials, cluster \in Clusters :
                (\A v \in versions : v.serial = serial
                                         => v.cluster = cluster)
                   => ~version_recluster(serial, cluster)]_vars

\* a version has been moved to cluster 1: its parent has a row of cluster 0
\* that was emptied and a row of cluster 1 that counts it
C22_Witness ==
    \E v \in versions :
        /\ v.cluster = 1
        /\ versions = {v}
        /\ Population(statistics, Parent(nodes, v.node), 0) = 0
        /\ \E s \in statistics : /\ s.node = Parent(nodes, v.node)
                                  /\ s.cluster = 0
        /\ Population(statistics, Parent(nodes, v.node), 1) = 1

(* ------------------------------ C23 ------------------------------------ *)
\* C23: version_create(node, hash, size, source, muser, cluster) returning
\* (serial, mtime), followed at once by version_get_properties(serial),
\* yields (serial, node, hash, size, source, mtime, muser, cluster) with the
\* values that were inserted.  The serial it returns is the serial of no
\* version yet, so that a version_create of an existing node is a step that
\* changes versions.
C23_CreateThenGet ==
    /\ [](\A v \in versions : v.serial # version_create_return.serial)
    /\ [][\/ versions' = versions
          \/ \A node \in NodeSet(nodes), hash \in Hashes, size \in Sizes,
                source \in Sources, muser \in Musers, cluster \in Clusters :
                version_create(node, hash, size, source, muser, cluster)
                   => version_get_properties(versions',
                                             version_create_return.serial)
                        = [serial |-> version_create_return.serial,
                           node |-> node, hash |-> hash, size |-> size,
                           source |-> source,
                           mtime |-> version_create_return.mtime,
                           muser |-> muser, cluster |-> cluster]]_vars

\* a second version, unlike the first, has been created
C23_Witness ==
    \E v \in versions, w \in versions :
        /\ v.serial = 1
        /\ w.serial = 2
        /\ w.size # v.size
        /\ w.cluster # v.cluster
        /\ w.mtime # v.mtime
        /\ w.node # v.node

(* ------------------------------ C24 ------------------------------------ *)
\* the start the listing works with: strprevling(prefix) when the given start
\* is empty or less than the prefix
StartOf(l) ==
    IF l.start = <<>> \/ StrLess(l.start, l.prefix)
    THEN strprevling(l.prefix) ELSE l.start

\* (path, serial) of the direct children of the root whose path is between the
\* start and strnextling(prefix) and whose newest version before `before' is
\* outside cluster 0
Candidates ==
    {<<n.path, v.serial>> : <<n, v>> \in
        {x \in nodes \X versions :
            /\ x[1].parent = ROOTNODE
            /\ x[2].node = x[1].node
            /\ x[2].mtime < listed.before
            /\ \A w \in versions :
                  (w.node = x[2].node /\ w.mtime < listed.before)
                     => w.serial <= x[2].serial
            /\ x[2].cluster # 0
            /\ StrLess(StartOf(listed), x[1].path)
            /\ StrLess(x[1].path, strnextling(listed.prefix))}}

C25_NextlingBoundsPrefix ==
    (listed # None /\ listed.prefix # <<>>)
    => LET P == listed.prefix
           S == listed.s
       IN  IF P[Len(P)] < MaxChar
           THEN /\ listed.return # RuntimeError
                /\ ((P = S \/ StrLess(P, S)) /\ StrLess(S, listed.return))
                       <=> StartsWith(S, P)
           ELSE listed.return = RuntimeError

\* strnextling returned for a string that S extends by the last character
C25_Witness ==
    /\ listed # None
    /\ Len(listed.prefix) = 2
    /\ listed.return # RuntimeError
    /\ listed.s = listed.prefix \o <<MaxChar>>

(* ------------------------------ C26 ------------------------------------ *)
\* C26: every path a listing returns as a match starts with the prefix, for
\* every start and every set of stored paths.
C26_MatchesStartWithPrefix ==
    (listed # None /\ listed.return # OperationalError)
    => \A i \in 1..Len(listed.return.matches) :
          StartsWith(listed.return.matches[i][1], listed.prefix)

(* ------------------------------ C27 ------------------------------------ *)
\* the serials of the versions
SerialSet(vs) == {v.serial : v \in vs}

\* C27: in every reachable state the node of every version, statistics row
\* and policy row exists and the serial of every attribute is the serial of a
\* version; a step that deletes a version leaves no attribute of it, and a
\* step that deletes a node leaves no version of it, no attribute of its
\* versions, and no statistics or policy row of it.
C27_ReferentialIntegrity ==
    /\ [](/\ \A v \in versions : v.node \in NodeSet(nodes)
          /\ \A a \in attributes : a.serial \in SerialSet(versions)
          /\ \A r \in statistics : r.node \in NodeSet(nodes)
          /\ \A r \in policy : r.node \in NodeSet(nodes))
    /\ [][/\ \A v \in versions \ versions' :
               v.serial \notin SerialSet(versions')
                  => \A a \in attributes' : a.serial # v.serial
          /\ \A n \in nodes \ nodes' :
               /\ \A v \in versions' : v.node # n.node
               /\ \A v \in versions : v.node = n.node
                     => \A a \in attributes' : a.serial # v.serial
               /\ \A r \in statistics' : r.node # n.node
               /\ \A r \in policy' : r.node # n.node]_vars

\* the first version was deleted and the second has attributes, and a node
\* has a policy
C27_Witness ==
    /\ SerialSet(versions) = {2}
    /\ attributes # {}
    /\ policy # {}

(* ------------------------------ C28 ------------------------------------ *)
\* the value of the last pair of items with the key
LastValue(items, key) ==
    LET at == {i \in 1..Len(items) : items[i][1] = key} IN
    items[SetMax(at)][2]

\* C28: after attribute_set(serial, items), attribute_get(serial) has one
\* value per key: the value given for every key of items and the value it had
\* for every other key; no two attribute rows ever have the same
\* (serial, key).
C28_SetAttributesUpserts ==
    /\ [][\A serial \in SerialSet(versions), items \in Items :
            attribute_set(serial, items)
            => \A key \in AttrKeys :
                  LET had == {r \in attribute_get(attributes, serial) :
                                 r[1] = key}
                      has == {r \in attribute_get(attributes', serial) :
                                 r[1] = key}
                  IN  IF \E i \in 1..Len(items) : items[i][1] = key
                      THEN has = {<<key, LastValue(items, key)>>}
                      ELSE has = had]_vars
    /\ [](\A a \in attributes, b \in attributes :
            (a.serial = b.serial /\ a.key = b.key) => a = b)

\* a version has both keys, one of which was given a second value by a
\* later attribute_set
C28_Witness ==
    /\ calls >= 3
    /\ \E a \in attributes, b \in attributes :
           /\ a.serial = b.serial
           /\ a.key = "color" /\ a.value = "blue"
           /\ b.key = "archived" /\ b.value = "red"

(* ------------------------------ C29 ------------------------------------ *)
\* C29: no step changes the node, hash, size, source, mtime or muser of the
\* version of a serial, and a step changes its cluster only when it is
\* version_recluster of that serial to the new cluster.
C29_VersionsImmutable ==
    [][\A v \in versions \ versions' :
          \A w \in versions' \ versions :
              w.serial = v.serial
                 => /\ w = [v EXCEPT !.cluster = w.cluster]
                    /\ version_recluster(v.serial, w.cluster)]_vars

\* the first version was moved to cluster 1 at a later time than its mtime,
\* and a second version was created after that
C29_Witness ==
    \E v \in versions, w \in versions :
        /\ v.serial = 1 /\ v.cluster = 1 /\ v.mtime < now
        /\ v.node # ROOTNODE
        /\ w.serial = 2 /\ w.node = v.node /\ w.cluster = 1
        /\ \E r \in statistics : /\ r.node = Parent(nodes, v.node)
                                  /\ r.cluster = 0
                                  /\ r.population = 0
                                  /\ r.mtime > v.mtime

(* ------------------------------ C30 ------------------------------------ *)
\* C30: the serial that version_create returns is greater than the serial of
\* every version created before, the versions that were removed or purged
\* since included: here the versions a reader saw at an earlier time.
C30_SerialsNeverReused ==
    [][\A node \in NodeSet(nodes), hash \in Hashes, size \in Sizes,
          source \in Sources, muser \in Musers, cluster \in Clusters :
          version_create(node, hash, size, source, muser, cluster)
             => \A v \in seen : version_create_return.serial > v.serial]_vars

(* ------------------------------ C31 ------------------------------------ *)
\* what the walk from node applies to the row (m, cluster): (dp, ds) at the
\* parent of node, (0, ds) at every further strict ancestor, nothing elsewhere
WalkApplies(node, dp, ds, cluster) ==
    LET st == statistics_update_ancestors(nodes, statistics, node, dp, ds,
                                          now, cluster)
        up == IF node = ROOTNODE THEN {} ELSE StrictAncestors(nodes, node)
    IN  \A m \in NodeIds, c \in Clusters :
            IF c = cluster /\ m \in up
            THEN /\ Size(st, m, c) = Size(statistics, m, c) + ds
                 /\ Population(st, m, c) =
                        Population(statistics, m, c)
                        + (IF m = Parent(nodes, node) THEN dp ELSE 0)
                 /\ statistics_get(st, m, c).mtime = now
            ELSE statistics_get(st, m, c) = statistics_get(statistics, m, c)

\* C31: in every reachable state statistics_update_ancestors(node, dp, ds,
\* mtime, cluster) terminates for every node, and it applies (dp, ds) to the
\* parent of node, (0, ds) to each further strict ancestor once, up to the
\* root, and nothing when node is the root or does not exist.
C31_AncestorWalkTerminates ==
    \A node \in NodeIds :
        /\ Terminates(node)
        /\ \A dp \in {-1, 1}, ds \in Sizes, cluster \in Clusters :
               WalkApplies(node, dp, ds, cluster)

\* the second half of C31 alone, for the walks that terminate
C31_TerminatingWalkApplies ==
    \A node \in NodeIds :
        Terminates(node)
        => \A dp \in {-1, 1}, ds \in Sizes, cluster \in Clusters :
               WalkApplies(node, dp, ds, cluster)

(* ------------------------------ C32 ------------------------------------ *)
\* C32: in a listing with a delimiter that ended below its limit, every
\* eligible path that does not start with a recorded common prefix, a path
\* equal to strnextling of a recorded common prefix included, is among the
\* matches (an eligible path with a common prefix of its own starts with a
\* recorded one).
C32_ReseedSkipsOnlyThePrefix ==
    (/\ listed # None /\ listed.delimiter # <<>> /\ listed.filterq = <<>>
     /\ Len(listed.return.matches) < listed.limit)
    => \A c \in Candidates :
          \/ \E i \in 1..Len(listed.return.prefixes) :
                 StartsWith(c[1], listed.return.prefixes[i])
          \/ c \in Range(listed.return.matches)

(* ------------------------------ C33 ------------------------------------ *)
\* the common prefix of a path: path[:idx + len(delimiter)], <<>> when the
\* path has no delimiter at or after len(prefix) or only one that ends it
CommonPrefixOf(path) ==
    LET dz == Len(listed.delimiter)
        idx == Find(path, listed.delimiter, Len(listed.prefix))
    IN  IF idx = 0 \/ idx + dz - 1 = Len(path) THEN <<>>
        ELSE SubSeq(path, 1, idx + dz - 1)

\* the common prefixes are strictly ascending, each ends with the delimiter
\* and is the common prefix of an eligible path
PrefixesOfEligiblePaths ==
    LET prefixes == listed.return.prefixes
        dz == Len(listed.delimiter)
    IN  /\ \A i \in 1..Len(prefixes), j \in 1..Len(prefixes) :
               i < j => StrLess(prefixes[i], prefixes[j])
        /\ \A i \in 1..Len(prefixes) :
               /\ Len(prefixes[i]) >= dz
               /\ SubSeq(prefixes[i], Len(prefixes[i]) - dz + 1,
                         Len(prefixes[i])) = listed.delimiter
               /\ \E c \in Candidates : CommonPrefixOf(c[1]) = prefixes[i]

\* C33: in a listing with a delimiter the common prefixes have no duplicates
\* and are strictly ascending, and each one starts with the prefix, ends with
\* the delimiter and is path[:idx + len(delimiter)] of an eligible path whose
\* first delimiter at or after len(prefix) is before the path's end.
C33_CommonPrefixes ==
    (/\ listed # None /\ listed.delimiter # <<>> /\ listed.filterq = <<>>)
    => /\ PrefixesOfEligiblePaths
       /\ \A i \in 1..Len(listed.return.prefixes) :
              StartsWith(listed.return.prefixes[i], listed.prefix)

\* C33 without `starts with the prefix'
C33_CommonPrefixesOfEligiblePaths ==
    (/\ listed # None /\ listed.delimiter # <<>> /\ listed.filterq = <<>>)
    => PrefixesOfEligiblePaths

(* ------------------------------ C34 ------------------------------------ *)
\* the first delimiter of path at or after len(prefix) ends the path
IsMarker(path) ==
    LET idx == Find(path, listed.delimiter, Len(listed.prefix)) IN
    idx # 0 /\ idx + Len(listed.delimiter) - 1 = Len(path)

AsOfBefore(path, before) ==
    {v \in versions : /\ v.mtime < before
                      /\ \E n \in nodes : n.path = path /\ n.node = v.node}

\* C35: every (path, serial) a listing returns has for serial the greatest
\* serial among the versions of the path's node with mtime < before, whatever
\* their cluster, and that version is not in except_cluster: a node whose
\* newest version as of before is in except_cluster is not listed, even with
\* an older version in another cluster.
C35_ListsNewestAcrossClusters ==
    (listed # None /\ listed.return # OperationalError)
    => \A i \in 1..Len(listed.return.matches) :
          LET path == listed.return.matches[i][1]
              serial == listed.return.matches[i][2]
              upto == AsOfBefore(path, listed.before)
          IN  /\ upto # {}
              /\ serial = SetMax({v.serial : v \in upto})
              /\ \A v \in upto : v.serial = serial => v.cluster # 0

\* a listing left out a path whose newest version before `before' is in
\* cluster 0 and whose older version is in cluster 1
C35_Witness ==
    /\ listed # None
    /\ listed.return.matches = <<>>
    /\ \E v \in AsOfBefore(<<1>>, listed.before),
          w \in AsOfBefore(<<1>>, listed.before) :
           /\ v.serial < w.serial
           /\ v.cluster = 1
           /\ w.cluster = 0

(* ------------------------------ C36 ------------------------------------ *)
\* C36: statistics_latest(node, before, except_cluster), when it returns a
\* summary, returns for count the number of direct children of node whose
\* latest version before `before' is outside except_cluster, and for size the
\* sum of the sizes of such latest versions over the strict descendants of
\* node in the tree; a node that is no descendant adds nothing.
C36_LatestSummary ==
    (listed # None /\ listed.return # None)
    => LET latest == LatestVersions(listed.before, listed.except_cluster)
           below == Subtree(nodes, listed.node) \ {listed.node}
       IN  /\ listed.return[1] =
                  Cardinality({v \in latest :
                                  v.node \in Children(nodes, listed.node)})
           /\ listed.return[2] =
                  SumSize({v \in latest : v.node \in below})

(* ------------------------------ C37 ------------------------------------ *)
\* C37: attribute_copy(source, dest), dest being the serial of a version,
\* leaves dest with the value of source for every key source has and with
\* its own value for every other key, leaves the attributes of source as
\* they were, and a second attribute_copy(source, dest) changes nothing.
C37_CopyAttributes ==
    [][\A source \in Serials, dest \in SerialSet(versions) :
          attribute_copy(source, dest)
          => LET from == attribute_get(attributes, source)
                 had == attribute_get(attributes, dest)
                 has == attribute_get(attributes', dest)
             IN  /\ from \subseteq has
                 /\ \A r \in had :
                        (\A f \in from : f[1] # r[1]) => r \in has
                 /\ \A r \in has : r \in from \/ r \in had
                 /\ \A r \in has, q \in has : r[1] = q[1] => r = q
                 /\ attribute_get(attributes', source) = from
                 /\ attribute_copied(attributes', versions', source, dest)
                        = attributes']_vars

\* the second version has the color of the first besides a key of its own
C37_Witness ==
    /\ calls >= 1
    /\ attribute_get(attributes, 1) = {<<"color", "blue">>}
    /\ attribute_get(attributes, 2) =
           {<<"color", "blue">>, <<"archived", "red">>}

(* ------------------------------ C38 ------------------------------------ *)
\* C38: the root (node 0, parent 0) exists in every reachable state: no
\* node_remove, node_purge or node_purge_children, of the root or of another
\* node, deletes it.
C38_RootExists ==
    \E n \in nodes : n.node = ROOTNODE /\ n.parent = ROOTNODE

(* ------------------------------ C39 ------------------------------------ *)
\* C39: in every reachable state every statistics row has population >= 0
\* and size >= 0 (the sizes of the versions are positive).
C39_StatisticsNonNegative ==
    \A r \in statistics : r.population >= 0 /\ r.size >= 0

(* ------------------------------ C40 ------------------------------------ *)
\* the paths of the matches and the common prefixes are strictly ascending
ScanAscending ==
    listed # None
    => /\ \A i \in 1..Len(listed.matches), j \in 1..Len(listed.matches) :
              i < j => StrLess(listed.matches[i][1], listed.matches[j][1])
       /\ \A i \in 1..Len(listed.prefixes), j \in 1..Len(listed.prefixes) :
              i < j => StrLess(listed.prefixes[i], listed.prefixes[j])

\* the rows of a scan are the rows of the query of latest_version_list
ScanRowsAreSelected ==
    \A start \in {<<>>, <<1, Slash + 1>>, <<3, Slash + 1>>} :
        scan_execute(<<>>, start) =
            OrderByPath(Select(list_query(inf, 0, ROOTNODE, start,
                                          strnextling(<<>>), <<>>)))

\* a query executed again has a start above every path fetched before
ScanRestartsAbove ==
    (listed # None /\ listed' # None /\ listed'.scans > listed.scans)
    => \A path \in listed'.fetched : StrLess(path, listed'.start)

\* C40: while writers create and remove nodes and versions between the scans
\* of a listing with a delimiter, the paths of its matches are strictly
\* ascending and its common prefixes strictly ascending, without duplicates,
\* every scan executed again starting above every path already fetched; and
\* the listing, once begun, comes to its end.
C40_ConcurrentListing ==
    /\ []ScanAscending
    /\ [][ScanRestartsAbove]_vars
    /\ (listed # None) ~> (listed # None /\ listed.pc = "done")

\* a listing ended with two common prefixes, the second from a node created
\* after it began: one node at most had a version when it began
C40_Witness ==
    /\ listed # None
    /\ listed.pc = "done"
    /\ listed.calls0 = 2
    /\ listed.scans = 3
    /\ Len(listed.prefixes) = 2

(* ------------------------------ C10 ------------------------------------ *)
\* the nodes a step removes
Removed == NodeSet(nodes) \ NodeSet(nodes')

\* C10: a purge removes a node only if the node has no child node and every
\* version it had was among those the purge deleted.
C10_PurgeRemovesOnlyEmptyLeaves ==
    [][\A node \in NodeIds, before \in Befores, cluster \in Clusters :
          /\ node_purge(node, before, cluster)
             => \A n \in Removed :
                   /\ Children(nodes, n) = {}
                   /\ {v \in versions : v.node = n}
                          \subseteq purge_selection(node, before, cluster)
          /\ node_purge_children(node, before, cluster)
             => \A n \in Removed :
                   /\ Children(nodes, n) = {}
                   /\ {v \in versions : v.node = n}
                          \subseteq purge_children_selection(node, before,
                                                             cluster)]_vars

====
